---- MODULE Spec2Model ----
(***************************************************************************)
(* A model of the s7 client library (ISO-on-TCP transport, handshake,      *)
(* chunked read/write jobs, CPU control) as a state machine.               *)
(*                                                                         *)
(* Byte vectors are sequences of 0..255; the source indexes from 0, so     *)
(* At(s, i) is the source's s[i] and Slice(s, a, b) the source's s[a..b].  *)
(***************************************************************************)
EXTENDS Integers, Sequences, FiniteSets, TLC

(***************************************************************************)
(* Bounds of the model.                                                    *)
(***************************************************************************)
\* callers (threads) sharing the transport in SpecConc
NumCallers == 2
\* operations started after the handshake, over all callers
MaxOps == 2
\* element counts 1..MaxAmount the caller asks for (plus TwoChunkAmount)
MaxAmount == 2
\* start offsets 0..MaxStart
MaxStart == 1
\* keepalive frames the peer puts before one response
MaxKeepalive == 1
\* deviations of the environment in one behaviour: short socket reads,
\* timeouts, write failures, error or malformed responses of the peer
MaxFaults == 1
\* requests one job may hand to the transport (cuts the endless loops)
MaxChunks == 20
\* continuation requests of one SZL query
MaxSzlNext == 2
MaxSets == 2

(***************************************************************************)
(* Program constants.                                                      *)
(***************************************************************************)
PDU_SIZE_REQUESTED == 480
ISO_HEADER_SIZE == 7
MIN_PDU_SIZE == 16
CONFIRM_CONNECTION == 208
WL_BIT == 1
WL_BYTE == 2
WL_CHAR == 3
WL_WORD == 4
WL_INT == 5
WL_DWORD == 6
WL_DINT == 7
WL_REAL == 8
WL_COUNTER == 28
WL_TIMER == 29
SIZE_HEADER_READ == 31
SIZE_HEADER_WRITE == 35
TS_RES_BIT == 3
TS_RES_BYTE == 4
TS_RES_OCTET == 9
AreaProcessInput == 129
AreaProcessOutput == 130
AreaMerker == 131
AreaDataBausteine == 132
AreaCounter == 28
AreaTimer == 29
ConnectionPG == 1
ConnectionOP == 2
ConnectionBasic == 3
ISO_INVALID_PDU == 196608
ISO_INVALID_DATA_SIZE == 262144
CLI_NEGOTIATING_PDU == 1048576
CLI_CANNOT_START_PLC == 14680064
CLI_ALREADY_RUN == 15728640
CLI_CANNOT_STOP_PLC == 16777216
CLI_ALREADY_STOP == 19922944
TELEGRAM_MIN_RESPONSE == 19
PDU_START == 40
PDU_STOP == 41
PDU_ALREADY_STARTED == 2
PDU_ALREADY_STOPPED == 7
MIN_SZL_FIRST_TELEGRAM == 42

SZL_MIN_RESPONSE == 205
PLC_STATUS_MIN_RESPONSE == 45
CLI_INVALID_PLC_ANSWER == 8388608
CPU_STATUS_UNKNOWN == 0
CPU_STATUS_RUN == 8
CPU_STATUS_STOP == 4

ISO_CONNECTION_REQUEST_TELEGRAM ==
    <<3, 0, 0, 22, 17, 224, 0, 0, 0, 1, 0, 192, 1, 10, 193, 2, 1, 0, 194, 2, 1, 2>>

READ_WRITE_TELEGRAM ==
    <<3, 0, 0, 31, 2, 240, 128, 50, 1, 0, 0, 5, 0, 0, 14, 0, 0, 4, 1, 18, 10, 16,
      WL_BYTE, 0, 0, 0, 0, 132, 0, 0, 0, 0, 4, 0, 0>>

PDU_NEGOTIATION_TELEGRAM ==
    <<3, 0, 0, 25, 2, 240, 128, 50, 1, 0, 0, 4, 0, 0, 8, 0, 0, 240, 0, 0, 1, 0, 1, 0, 30>>

WARM_START_TELEGRAM ==
    <<3, 0, 0, 37, 2, 240, 128, 50, 1, 0, 0, 12, 0, 0, 20, 0, 0, 40, 0, 0, 0, 0, 0, 0,
      253, 0, 0, 9, 80, 95, 80, 82, 79, 71, 82, 65, 77>>

COLD_START_TELEGRAM ==
    <<3, 0, 0, 39, 2, 240, 128, 50, 1, 0, 0, 15, 0, 0, 22, 0, 0, 40, 0, 0, 0, 0, 0, 0,
      253, 0, 2, 67, 32, 9, 80, 95, 80, 82, 79, 71, 82, 65, 77>>

SZL_FIRST_TELEGRAM ==
    <<3, 0, 0, 33, 2, 240, 128, 50, 7, 0, 0, 5, 0, 0, 8, 0, 8, 0, 1, 18, 4, 17, 68, 1, 0,
      255, 9, 0, 4, 0, 0, 0, 0>>

SZL_NEXT_TELEGRAM ==
    <<3, 0, 0, 33, 2, 240, 128, 50, 7, 0, 0, 6, 0, 0, 12, 0, 4, 0, 1, 18, 8, 18, 68, 1, 1,
      0, 0, 0, 0, 10, 0, 0, 0>>

PLC_STATUS_TELEGRAM ==
    <<3, 0, 0, 33, 2, 240, 128, 50, 7, 0, 0, 44, 0, 0, 8, 0, 8, 0, 1, 18, 4, 17, 68, 1, 0,
      255, 9, 0, 4, 4, 36, 0, 0>>

STOP_TELEGRAM ==
    <<3, 0, 0, 33, 2, 240, 128, 50, 1, 0, 0, 14, 0, 0, 16, 0, 0, 41, 0, 0, 0, 0, 0, 9,
      80, 95, 80, 82, 79, 71, 82, 65, 77>>

(***************************************************************************)
(* Byte helpers (byteorder::BigEndian and Rust's integer casts).           *)
(***************************************************************************)
At(s, i) == s[i + 1]

Slice(s, a, b) == SubSeq(s, a + 1, b)

Zeros(n) == [i \in 1..n |-> 0]

Min(a, b) == IF a < b THEN a ELSE b

\* n as u8, n as u16 (two's complement truncation)
AsU8(n) == n % 256

AsU16(n) == n % 65536

\* BigEndian::read_u16(&s[i..])
read_u16(s, i) == At(s, i) * 256 + At(s, i + 1)

\* BigEndian::write_u16(s[i..].as_mut(), v)
write_u16(s, i, v) ==
    [k \in 1..Len(s) |-> IF k = i + 1 THEN AsU16(v) \div 256
                         ELSE IF k = i + 2 THEN AsU16(v) % 256
                         ELSE s[k]]

\* s[i] = v
Put(s, i, v) == [s EXCEPT ![i + 1] = v]

\* stream.read(&mut d[from..]) that got the bytes bs: they overwrite d[from..from+len]
ReadInto(d, from, bs) ==
    [k \in 1..Len(d) |-> IF k > from /\ k <= from + Len(bs) THEN bs[k - from] ELSE d[k]]

\* Result values: Ok(resp) and Err(kind, value)
RetOk(resp) == [ok |-> TRUE, k |-> "Ok", v |-> 0, resp |-> resp]

RetErr(kind, val) == [ok |-> FALSE, k |-> kind, v |-> val, resp |-> <<>>]

NoRet == [ok |-> FALSE, k |-> "none", v |-> 0, resp |-> <<>>]

VARIABLES
    callers,    \* the threads that use the transport
    target,     \* the PLC range the callers work on: [area, db, start, amount]
    client,     \* "none": Client::new not finished, "ready": it returned Ok, "failed": Err
    opts,       \* tcp::Options of the transport (session state)
    lock,       \* holder of the stream mutex, 0 when free
    inbuf,      \* bytes the peer sent that the socket has not delivered yet
    peerq,      \* requests the peer has received and not answered
    mem,        \* peer memory: bytes written so far, by <<area, db, address>>
    snd,        \* per caller: the activation of Transport::send
    job,        \* per caller: the activation of the Client operation
    hshake,     \* history of the handshake: requests written, responses returned
    peerFrame,  \* history: the frame the peer sent last (<<>>: none)
    mon,        \* history: requests written and not answered, an i/o failure seen
    ops,        \* per caller: operations started
    faults,     \* deviations of the environment so far
    field       \* a field::Bool under construction and use

vars == <<callers, target, client, opts, lock, inbuf, peerq, mem, snd, job, hshake, peerFrame,
          mon, ops, faults, field>>

Callers == 1..NumCallers

\* what no operation of the client and the transport changes
conf == <<callers, target, field>>


(***************************************************************************)
(* The peer (PLC).  It answers each request it has received with at most   *)
(* MaxKeepalive bare COTP frames followed by one frame.  A well-behaved    *)
(* answer serves reads from mem and stores writes into it; the other       *)
(* answers are deviations, counted in faults.                              *)
(***************************************************************************)
KeepaliveFrame == <<3, 0, 0, 7, 2, 240, 128>>

\* a TPKT frame of len bytes with a COTP data header, zero elsewhere but for ov
Frame(len, ov) ==
    [k \in 1..len |->
        IF (k - 1) \in DOMAIN ov THEN ov[k - 1]
        ELSE CASE k = 1 -> 3
               [] k = 2 -> 0
               [] k = 3 -> len \div 256
               [] k = 4 -> len % 256
               [] k = 5 -> 2
               [] k = 6 -> 240
               [] k = 7 -> 128
               [] OTHER -> 0]

\* the PLC's memory image before any write
Image(addr) == 16 + addr

MemAt(m, key) == IF key \in DOMAIN m THEN m[key] ELSE Image(key[3])

IsConnReq(r) == Len(r) = 22 /\ At(r, 5) = 224

IsNegotiation(r) == Len(r) = 25 /\ At(r, 17) = 240

IsReadReq(r) == Len(r) = SIZE_HEADER_READ /\ At(r, 17) = 4

IsWriteReq(r) == Len(r) >= SIZE_HEADER_WRITE /\ At(r, 17) = 5

IsControlReq(r) == Len(r) >= 33 /\ At(r, 17) \in {PDU_START, PDU_STOP}

\* the fields of a read or write request as the PLC decodes them
ReqCount(r) == read_u16(r, 23)

ReqDb(r) == read_u16(r, 25)

ReqArea(r) == At(r, 27)

ReqByteAddr(r) == (At(r, 28) * 65536 + At(r, 29) * 256 + At(r, 30)) \div 8

\* pdu lengths the peer may grant in the negotiation
PduChoices == {0, 1, 18, 19, 20, SIZE_HEADER_WRITE, SIZE_HEADER_WRITE + 1,
               SIZE_HEADER_WRITE + 2, PDU_SIZE_REQUESTED, 961}

\* the largest payload one response frame can carry
MaxPayload == PDU_SIZE_REQUESTED + ISO_HEADER_SIZE - 25

ReadReply(r, m) ==
    LET n == ReqCount(r)
    IN  IF n <= MaxPayload
        THEN Frame(25 + n, (21 :> 255) @@
                 [j \in 25..(24 + n) |-> MemAt(m, <<ReqArea(r), ReqDb(r), ReqByteAddr(r) + j - 25>>)])
        ELSE Frame(25, (21 :> 255))

WriteStore(r, m) ==
    LET n    == Min(ReqCount(r), Len(r) - SIZE_HEADER_WRITE)
        keys == {<<ReqArea(r), ReqDb(r), ReqByteAddr(r) + j>> : j \in 0..(n - 1)}
    IN  [key \in DOMAIN m \cup keys |->
            IF key \in keys THEN At(r, SIZE_HEADER_WRITE + key[3] - ReqByteAddr(r))
            ELSE m[key]]

\* well-behaved answers: [frame, mem after]
PeerGood(r, m) ==
    IF IsConnReq(r) THEN {[frame |-> Frame(22, (5 :> CONFIRM_CONNECTION)), mem |-> m]}
    ELSE IF IsNegotiation(r)
    THEN {[frame |-> Frame(27, (25 :> p \div 256) @@ (26 :> p % 256)), mem |-> m] :
             p \in PduChoices}
    ELSE IF IsReadReq(r) THEN {[frame |-> ReadReply(r, m), mem |-> m]}
    ELSE IF IsWriteReq(r) THEN {[frame |-> Frame(22, (21 :> 255)), mem |-> WriteStore(r, m)]}
    ELSE IF IsControlReq(r)
    THEN {[frame |-> Frame(20, (17 :> At(r, 17))), mem |-> m]}
    ELSE {}

\* frames whose TPKT length is legal or not, whatever the request
JunkFrames ==
    {Frame(len, (21 :> 255)) :
        len \in {MIN_PDU_SIZE - 1, MIN_PDU_SIZE, PDU_SIZE_REQUESTED + ISO_HEADER_SIZE,
                 PDU_SIZE_REQUESTED + ISO_HEADER_SIZE + 1}}

\* deviating answers
PeerBad(r) ==
    JunkFrames \cup
    (IF IsConnReq(r) THEN {Frame(22, (5 :> 128)), Frame(21, (5 :> CONFIRM_CONNECTION))}
     ELSE IF IsNegotiation(r)
     THEN {Frame(27, (17 :> 129) @@ (26 :> 240)), Frame(27, (18 :> 1) @@ (26 :> 240)),
           Frame(26, (25 :> 240))}
     ELSE IF IsReadReq(r)
     THEN {Frame(25, (21 :> 5)), Frame(24, (21 :> 255))}
     ELSE IF IsWriteReq(r)
     THEN {Frame(22, (21 :> 5)), Frame(23, (21 :> 255))}
     ELSE IF IsControlReq(r)
     THEN {Frame(20, (17 :> 0)),
           Frame(20, (17 :> At(r, 17)) @@
                     (18 :> IF At(r, 17) = PDU_START THEN PDU_ALREADY_STARTED
                            ELSE PDU_ALREADY_STOPPED)),
           Frame(20, (17 :> 0) @@
                     (18 :> IF At(r, 17) = PDU_START THEN PDU_ALREADY_STARTED
                            ELSE PDU_ALREADY_STOPPED)),
           Frame(TELEGRAM_MIN_RESPONSE, (17 :> At(r, 17))),
           Frame(TELEGRAM_MIN_RESPONSE - 1, (17 :> At(r, 17)))}
     ELSE {})

RECURSIVE Repeat(_, _)
Repeat(k, f) == IF k = 0 THEN <<>> ELSE f \o Repeat(k - 1, f)

PeerRespond ==
    /\ peerq # <<>>
    /\ \E k \in 0..MaxKeepalive :
         \/ \E g \in PeerGood(Head(peerq), mem) :
              /\ inbuf' = inbuf \o Repeat(k, KeepaliveFrame) \o g.frame
              /\ mem' = g.mem
              /\ peerFrame' = g.frame
              /\ faults' = faults
         \/ /\ faults < MaxFaults
            /\ k = 0
            /\ \E f \in PeerBad(Head(peerq)) :
                 /\ inbuf' = inbuf \o f
                 /\ peerFrame' = f
            /\ faults' = faults + 1
            /\ mem' = mem
    /\ peerq' = Tail(peerq)
    /\ UNCHANGED <<conf, client, opts, lock, snd, job, hshake, mon, ops>>

\* the peer drops a request without answering it
PeerSilent ==
    /\ peerq # <<>>
    /\ LET odd == IF PeerGood(Head(peerq), mem) = {} THEN 0 ELSE 1
       IN  faults + odd <= MaxFaults /\ faults' = faults + odd
    /\ peerq' = Tail(peerq)
    /\ peerFrame' = <<>>
    /\ UNCHANGED <<conf, client, opts, lock, inbuf, mem, snd, job, hshake, mon, ops>>


(***************************************************************************)
(* Transport::send, one step per socket call.  The guard of the stream     *)
(* mutex is taken first and dropped when send returns.  partial and        *)
(* skipped keep what happened in the call: a transfer shorter than asked   *)
(* for, the count of frames of length 7 read and dropped.                  *)
(***************************************************************************)
IdleSend ==
    [pc |-> "idle", request |-> <<>>, data |-> <<>>, length |-> 0, ret |-> NoRet,
     partial |-> FALSE, skipped |-> 0]

\* self.transport.send(req): a fresh zeroed data vector (its first 7 bytes)
CallSend(req) ==
    [pc |-> "lock", request |-> req, data |-> Zeros(ISO_HEADER_SIZE), length |-> 0,
     ret |-> NoRet, partial |-> FALSE, skipped |-> 0]

Event(kind, bytes) == [t |-> kind, bytes |-> bytes]

\* send returns r: the guard is dropped (and the history is kept)
SendReturns(c, r) ==
    /\ lock' = 0
    /\ mon' = [outstanding |-> IF r.ok THEN mon.outstanding - 1 ELSE mon.outstanding,
               failed |-> mon.failed \/ r.k \in {"Io", "PduLength"}]
    /\ hshake' = IF client # "ready"
                 THEN Append(hshake, Event(IF r.ok THEN "resp" ELSE "err", r.resp))
                 ELSE hshake

\* send without the guard of the stream: the caller goes on whoever holds it
SendLockUnguarded(c) ==
    /\ snd[c].pc = "lock"
    /\ lock' = c
    /\ snd' = [snd EXCEPT ![c].pc = "write"]
    /\ UNCHANGED <<conf, client, opts, inbuf, peerq, mem, job, hshake, peerFrame, mon, ops,
                   faults>>

\* self.stream.lock(): blocks while another caller holds the guard
SendLock(c) ==
    /\ snd[c].pc = "lock"
    /\ lock = 0
    /\ lock' = c
    /\ snd' = [snd EXCEPT ![c].pc = "write"]
    /\ UNCHANGED <<conf, client, opts, inbuf, peerq, mem, job, hshake, peerFrame, mon, ops,
                   faults>>

\* stream.write(request)?
SendWrite(c) ==
    /\ snd[c].pc = "write"
    /\ snd' = [snd EXCEPT ![c].pc = "hdr"]
    /\ peerq' = Append(peerq, snd[c].request)
    /\ mon' = [mon EXCEPT !.outstanding = @ + 1]
    /\ hshake' = IF client # "ready" THEN Append(hshake, Event("req", snd[c].request))
                 ELSE hshake
    /\ UNCHANGED <<conf, client, opts, lock, inbuf, mem, job, peerFrame, ops, faults>>

\* stream.write(request)? returns Ok(n) with n below the length of the request:
\* the count is dropped, the rest of the request is never written
SendWriteShort(c) ==
    /\ snd[c].pc = "write"
    /\ faults < MaxFaults
    /\ faults' = faults + 1
    /\ snd' = [snd EXCEPT ![c].pc = "hdr", ![c].partial = TRUE]
    /\ peerq' = Append(peerq, Slice(snd[c].request, 0, Len(snd[c].request) - 1))
    /\ mon' = [mon EXCEPT !.outstanding = @ + 1]
    /\ hshake' = IF client # "ready" THEN Append(hshake, Event("req", snd[c].request))
                 ELSE hshake
    /\ UNCHANGED <<conf, client, opts, lock, inbuf, mem, job, peerFrame, ops>>

\* stream.write(request)? fails: the io error is returned
SendWriteFails(c) ==
    /\ snd[c].pc = "write"
    /\ faults < MaxFaults
    /\ faults' = faults + 1
    /\ snd' = [snd EXCEPT ![c].pc = "ret", ![c].ret = RetErr("Io", 0)]
    /\ SendReturns(c, RetErr("Io", 0))
    /\ UNCHANGED <<conf, client, opts, inbuf, peerq, mem, job, peerFrame, ops>>

\* the byte counts one stream.read of a slice of n bytes may return: all that
\* is there, up to n, or (a short read) one byte fewer
ReadCounts(n) ==
    LET full == Min(n, Len(inbuf))
    IN  {full} \cup (IF faults < MaxFaults /\ full > 1 THEN {full - 1} ELSE {})

Short(n, k) == IF k < Min(n, Len(inbuf)) THEN 1 ELSE 0

\* the length test after the TPKT header: where send goes on
HeaderBranch(length) ==
    IF length = ISO_HEADER_SIZE THEN "keepalive"
    ELSE IF length > PDU_SIZE_REQUESTED + ISO_HEADER_SIZE \/ length < MIN_PDU_SIZE
    THEN "ret"
    ELSE "cotp"

\* stream.read(&mut data[..4])?, the length and the branch on it
SendReadHeader(c) ==
    /\ snd[c].pc = "hdr"
    /\ inbuf # <<>>
    /\ \E k \in ReadCounts(4) :
         LET data   == ReadInto(snd[c].data, 0, SubSeq(inbuf, 1, k))
             length == read_u16(data, 2)
         IN  /\ inbuf' = SubSeq(inbuf, k + 1, Len(inbuf))
             /\ faults' = faults + Short(4, k)
             /\ IF HeaderBranch(length) = "ret"
                THEN /\ snd' = [snd EXCEPT ![c].pc = "ret", ![c].data = data,
                                           ![c].length = length,
                                           ![c].partial = @ \/ k < 4,
                                           ![c].ret = RetErr("PduLength", length)]
                     /\ SendReturns(c, RetErr("PduLength", length))
                ELSE /\ snd' = [snd EXCEPT ![c].pc = HeaderBranch(length), ![c].data = data,
                                           ![c].length = length,
                                           ![c].partial = @ \/ k < 4]
                     /\ UNCHANGED <<lock, mon, hshake>>
    /\ UNCHANGED <<conf, client, opts, peerq, mem, job, peerFrame, ops>>

\* length == ISO_HEADER_SIZE: stream.read(&mut data[4..7])? and loop
SendReadKeepalive(c) ==
    /\ snd[c].pc = "keepalive"
    /\ inbuf # <<>>
    /\ \E k \in ReadCounts(3) :
         /\ inbuf' = SubSeq(inbuf, k + 1, Len(inbuf))
         /\ faults' = faults + Short(3, k)
         /\ snd' = [snd EXCEPT ![c].pc = "hdr", ![c].partial = @ \/ k < 3, ![c].skipped = @ + 1,
                               ![c].data = ReadInto(snd[c].data, 4, SubSeq(inbuf, 1, k))]
    /\ UNCHANGED <<conf, client, opts, lock, peerq, mem, job, hshake, peerFrame, mon, ops>>

\* a send that takes the length of the frame for the PDU length
SendReadCotp_resizing(c) ==
    /\ snd[c].pc = "cotp"
    /\ inbuf # <<>>
    /\ \E k \in ReadCounts(3) :
         LET data == ReadInto(snd[c].data, 4, SubSeq(inbuf, 1, k))
         IN  /\ inbuf' = SubSeq(inbuf, k + 1, Len(inbuf))
             /\ faults' = faults + Short(3, k)
             /\ snd' = [snd EXCEPT ![c].pc = "payload", ![c].data = data,
                                   ![c].partial = @ \/ k < 3]
             /\ opts' = [opts EXCEPT !.last_pdu_type = At(data, 5),
                                     !.pdu_length = IF client = "ready" THEN snd[c].length
                                                    ELSE @]
    /\ UNCHANGED <<conf, client, lock, peerq, mem, job, hshake, peerFrame, mon, ops>>

\* stream.read(&mut data[4..7])?; last_pdu_type = data[5]
SendReadCotp(c) ==
    /\ snd[c].pc = "cotp"
    /\ inbuf # <<>>
    /\ \E k \in ReadCounts(3) :
         LET data == ReadInto(snd[c].data, 4, SubSeq(inbuf, 1, k))
         IN  /\ inbuf' = SubSeq(inbuf, k + 1, Len(inbuf))
             /\ faults' = faults + Short(3, k)
             /\ snd' = [snd EXCEPT ![c].pc = "payload", ![c].data = data,
                                   ![c].partial = @ \/ k < 3]
             /\ opts' = [opts EXCEPT !.last_pdu_type = At(data, 5)]
    /\ UNCHANGED <<conf, client, lock, peerq, mem, job, hshake, peerFrame, mon, ops>>

\* stream.read(&mut data[7..length])?; Ok(data[0..length])
SendReadPayload(c) ==
    /\ snd[c].pc = "payload"
    /\ inbuf # <<>>
    /\ \E k \in ReadCounts(snd[c].length - ISO_HEADER_SIZE) :
         LET data == ReadInto(snd[c].data \o Zeros(snd[c].length - ISO_HEADER_SIZE),
                              ISO_HEADER_SIZE, SubSeq(inbuf, 1, k))
         IN  /\ inbuf' = SubSeq(inbuf, k + 1, Len(inbuf))
             /\ faults' = faults + Short(snd[c].length - ISO_HEADER_SIZE, k)
             /\ snd' = [snd EXCEPT ![c].pc = "ret", ![c].data = data,
                                   ![c].partial = @ \/ k < snd[c].length - ISO_HEADER_SIZE,
                                   ![c].ret = RetOk(Slice(data, 0, snd[c].length))]
             /\ SendReturns(c, RetOk(Slice(data, 0, snd[c].length)))
    /\ UNCHANGED <<conf, client, opts, peerq, mem, job, peerFrame, ops>>

\* a stream.read(..)? that gets nothing within the read timeout
SendReadTimeout(c) ==
    /\ snd[c].pc \in {"hdr", "keepalive", "cotp", "payload"}
    /\ inbuf = <<>>
    /\ LET late == IF peerq = <<>> THEN 0 ELSE 1    \* an answer is still to come
       IN  faults + late <= MaxFaults /\ faults' = faults + late
    /\ snd' = [snd EXCEPT ![c].pc = "ret", ![c].ret = RetErr("Io", 0)]
    /\ SendReturns(c, RetErr("Io", 0))
    /\ UNCHANGED <<conf, client, opts, inbuf, peerq, mem, job, peerFrame, ops>>

send(c) ==
    \/ SendLock(c)
    \/ SendWrite(c)
    \/ SendWriteShort(c)
    \/ SendWriteFails(c)
    \/ SendReadHeader(c)
    \/ SendReadKeepalive(c)
    \/ SendReadCotp(c)
    \/ SendReadPayload(c)
    \/ SendReadTimeout(c)


(***************************************************************************)
(* Client operations.  job[c] is the activation record of the operation    *)
(* caller c runs; pc "done" holds its return value until the caller takes  *)
(* it (Finish), pc "panic" is a thread that panicked.                      *)
(***************************************************************************)
\* read_szl's locals and the S7SZL it builds
NoSzl ==
    [length_header |-> 0, number_of_data_record |-> 0, data |-> <<>>, seq_in |-> 0,
     done |-> FALSE, len |-> 0, offset |-> 0, data_szl |-> 0, id |-> 0]

IdleJob ==
    [op |-> "none", pc |-> "idle", area |-> 0, db_number |-> 0, start |-> 0, amount |-> 0,
     word_len |-> 0, word_size |-> 0, tot_elements |-> 0, max_elements |-> 0,
     num_elements |-> 0, size |-> 0, offset |-> 0, buffer |-> <<>>, result |-> NoRet,
     \* history of the job: requests handed to send, their element counts,
     \* responses accepted, the payloads response[25..25+size] of these
     nsent |-> 0, sizes |-> <<>>, acked |-> 0, payload |-> <<>>,
     \* the amount and word_len the caller passed
     asked |-> [amount |-> 0, word_len |-> 0],
     szl |-> NoSzl]

\* the operation returns r
Done(j, r) == [j EXCEPT !.pc = "done", !.result = r]

\* the operation panics
Panic(j) == [j EXCEPT !.pc = "panic", !.result = RetErr("panic", 0)]

\* Rust's integer division truncates toward zero
TruncDiv(a, b) == IF a >= 0 THEN a \div b ELSE -((-a) \div b)

(***************************************************************************)
(* Handshake: Client::new -> Transport::negotiate.                         *)
(***************************************************************************)
\* Transport::set_tsap
set_tsap(o) ==
    LET remote_tsap == AsU16(AsU16(o.conn_type * 256) + o.rack * 32 + o.slot)
        local_tsap  == 256
    IN  [o EXCEPT !.local_tsap_high = AsU8(local_tsap \div 256),
                  !.local_tsap_low = AsU8(local_tsap % 256),
                  !.remote_tsap_high = AsU8(remote_tsap \div 256),
                  !.remote_tsap_low = AsU8(remote_tsap)]

\* set_tsap's sum is computed in u16: one of its steps overflows
set_tsap_overflows(o) ==
    \/ o.rack * 32 >= 65536
    \/ o.conn_type * 256 + o.rack * 32 >= 65536
    \/ o.conn_type * 256 + o.rack * 32 + o.slot >= 65536

\* the connection request iso_connect builds
IsoConnectMsg(o) ==
    Put(Put(Put(Put(ISO_CONNECTION_REQUEST_TELEGRAM, 16, o.local_tsap_high),
                17, o.local_tsap_low), 20, o.remote_tsap_high), 21, o.remote_tsap_low)

\* the telegram negotiate_pdu_length builds
NegotiationMsg == write_u16(PDU_NEGOTIATION_TELEGRAM, 23, PDU_SIZE_REQUESTED)

\* Client::new(transport): negotiate() runs set_tsap and iso_connect up to its
\* send; an overflowing sum wraps without overflow checks and panics with them
NewClient(c) ==
    /\ c = 1
    /\ client = "none"
    /\ job[c].pc = "idle"
    /\ \/ /\ opts' = set_tsap(opts)
          /\ snd' = [snd EXCEPT ![c] = CallSend(IsoConnectMsg(set_tsap(opts)))]
          /\ job' = [job EXCEPT ![c] = [IdleJob EXCEPT !.op = "new", !.pc = "iso_connect"]]
       \/ /\ set_tsap_overflows(opts)
          /\ job' = [job EXCEPT ![c] = Panic([IdleJob EXCEPT !.op = "new"])]
          /\ UNCHANGED <<opts, snd>>
    /\ UNCHANGED <<conf, client, lock, inbuf, peerq, mem, hshake, peerFrame, mon, ops, faults>>

\* iso_connect without the test of last_pdu_type
iso_connect_unconfirmed(r, o) ==
    IF ~r.ok THEN RetErr("Connect", 0)
    ELSE IF Len(r.resp) # Len(ISO_CONNECTION_REQUEST_TELEGRAM)
    THEN RetErr("PduLength", Len(r.resp))
    ELSE RetOk(<<>>)

\* what iso_connect makes of the result of its send: Ok(()) or the error
iso_connect(r, o) ==
    IF ~r.ok THEN RetErr("Connect", 0)
    ELSE IF Len(r.resp) # Len(ISO_CONNECTION_REQUEST_TELEGRAM)
    THEN RetErr("PduLength", Len(r.resp))
    ELSE IF o.last_pdu_type # CONFIRM_CONNECTION THEN RetErr("Iso", 0)
    ELSE RetOk(<<>>)

\* iso_connect after its send; on Ok negotiate_pdu_length runs up to its send
IsoConnectReturn(c) ==
    /\ job[c].pc = "iso_connect"
    /\ snd[c].pc = "ret"
    /\ LET r == iso_connect(snd[c].ret, opts)
       IN  IF r.ok
           THEN /\ snd' = [snd EXCEPT ![c] = CallSend(NegotiationMsg)]
                /\ job' = [job EXCEPT ![c].pc = "negotiate_pdu_length"]
                /\ client' = client
           ELSE /\ snd' = [snd EXCEPT ![c] = IdleSend]
                /\ job' = [job EXCEPT ![c] = Done(job[c], r)]
                /\ client' = "failed"
    /\ UNCHANGED <<conf, opts, lock, inbuf, peerq, mem, hshake, peerFrame, mon, ops, faults>>

\* negotiate_pdu_length without the test of response[18]
negotiate_pdu_length_one_byte(o, r) ==
    IF ~r.ok THEN [ret |-> r, opts |-> o]
    ELSE IF Len(r.resp) = 27 /\ At(r.resp, 17) = 0
    THEN LET o2 == [o EXCEPT !.pdu_length = read_u16(r.resp, 25)]
         IN  IF o2.pdu_length <= 0
             THEN [ret |-> RetErr("Response", CLI_NEGOTIATING_PDU), opts |-> o2]
             ELSE [ret |-> RetOk(<<>>), opts |-> o2]
    ELSE [ret |-> RetErr("Response", CLI_NEGOTIATING_PDU), opts |-> o]

\* negotiate_pdu_length after its send: the result and the options it leaves
negotiate_pdu_length(o, r) ==
    IF ~r.ok THEN [ret |-> r, opts |-> o]
    ELSE IF Len(r.resp) = 27 /\ At(r.resp, 17) = 0 /\ At(r.resp, 18) = 0
    THEN LET o2 == [o EXCEPT !.pdu_length = read_u16(r.resp, 25)]
         IN  IF o2.pdu_length <= 0
             THEN [ret |-> RetErr("Response", CLI_NEGOTIATING_PDU), opts |-> o2]
             ELSE [ret |-> RetOk(<<>>), opts |-> o2]
    ELSE [ret |-> RetErr("Response", CLI_NEGOTIATING_PDU), opts |-> o]

\* negotiate_pdu_length returns, and with it negotiate and Client::new
NegotiateReturn(c) ==
    /\ job[c].pc = "negotiate_pdu_length"
    /\ snd[c].pc = "ret"
    /\ snd' = [snd EXCEPT ![c] = IdleSend]
    /\ LET n == negotiate_pdu_length(opts, snd[c].ret)
       IN  /\ opts' = n.opts
           /\ job' = [job EXCEPT ![c] = Done(job[c], n.ret)]
           /\ client' = IF n.ret.ok THEN "ready" ELSE "failed"
    /\ UNCHANGED <<conf, lock, inbuf, peerq, mem, hshake, peerFrame, mon, ops, faults>>

(***************************************************************************)
(* Read and write jobs.                                                    *)
(***************************************************************************)
data_size_byte(word_length) ==
    CASE word_length \in {WL_BIT, WL_BYTE, WL_CHAR} -> 1
      [] word_length \in {WL_WORD, WL_INT, WL_COUNTER, WL_TIMER} -> 2
      [] word_length \in {WL_DWORD, WL_DINT, WL_REAL} -> 4
      [] OTHER -> 0

\* adjustments that keep the amount of a Bit job
Normalize_bits(area, amount, word_len) ==
    LET wl == IF area = AreaCounter THEN WL_COUNTER
              ELSE IF area = AreaTimer THEN WL_TIMER ELSE word_len
        ws == data_size_byte(wl)
    IN  IF wl # WL_COUNTER /\ wl # WL_TIMER /\ wl # WL_BIT
        THEN [word_len |-> WL_BYTE, word_size |-> 1, amount |-> amount * ws]
        ELSE [word_len |-> wl, word_size |-> ws, amount |-> amount]

\* the adjustments of word_len, word_size and amount before the chunking
Normalize(area, amount, word_len) ==
    LET wl == IF area = AreaCounter THEN WL_COUNTER
              ELSE IF area = AreaTimer THEN WL_TIMER ELSE word_len
        ws == data_size_byte(wl)
    IN  IF wl = WL_BIT THEN [word_len |-> wl, word_size |-> ws, amount |-> 1]
        ELSE IF wl # WL_COUNTER /\ wl # WL_TIMER
        THEN [word_len |-> WL_BYTE, word_size |-> 1, amount |-> amount * ws]
        ELSE [word_len |-> wl, word_size |-> ws, amount |-> amount]

\* the address put into the telegram
Address(word_len, start) ==
    IF word_len \in {WL_BIT, WL_COUNTER, WL_TIMER} THEN start ELSE start * 8

\* request[28..31]: the three low bytes of the address
PutAddress(req, address) ==
    Put(Put(Put(req, 30, address % 256), 29, (address \div 256) % 256),
        28, (address \div 65536) % 256)

\* the read telegram with the byte address in place of the bit address
ReadRequest_unshifted(j) ==
    LET r1 == write_u16(Slice(READ_WRITE_TELEGRAM, 0, SIZE_HEADER_READ), 25, j.db_number)
        r2 == Put(r1, 27, j.area)
        r3 == IF j.word_len \in {WL_BIT, WL_COUNTER, WL_TIMER}
              THEN Put(r2, 22, AsU8(j.word_len)) ELSE r2
        r4 == write_u16(r3, 23, j.num_elements)
    IN  PutAddress(r4, j.start)

\* the telegram of one read chunk of j.num_elements elements
ReadRequest(j) ==
    LET r1 == write_u16(Slice(READ_WRITE_TELEGRAM, 0, SIZE_HEADER_READ), 25, j.db_number)
        r2 == Put(r1, 27, j.area)
        r3 == IF j.word_len \in {WL_BIT, WL_COUNTER, WL_TIMER}
              THEN Put(r2, 22, AsU8(j.word_len)) ELSE r2
        r4 == write_u16(r3, 23, j.num_elements)
    IN  PutAddress(r4, Address(j.word_len, j.start))

\* read's loop without the cap num_elements = max_elements
read_loop_uncapped(j) ==
    IF j.tot_elements > 0
    THEN [j EXCEPT !.pc = "send", !.num_elements = j.tot_elements,
                   !.size = j.tot_elements * j.word_size]
    ELSE Done(j, RetOk(<<>>))

\* the head of read's while loop: the next chunk is sized, or read returns Ok(())
read_loop(j) ==
    IF j.tot_elements > 0
    THEN LET n == Min(j.tot_elements, j.max_elements)
         IN  [j EXCEPT !.pc = "send", !.num_elements = n, !.size = n * j.word_size]
    ELSE Done(j, RetOk(<<>>))

\* read from its entry to the first send or an early return
read(area, db_number, start, amount, word_len, buffer, pdu_length) ==
    LET wl == IF area = AreaCounter THEN WL_COUNTER
              ELSE IF area = AreaTimer THEN WL_TIMER ELSE word_len
        nz == Normalize(area, amount, word_len)
        j  == [IdleJob EXCEPT !.op = "read", !.area = area, !.db_number = db_number,
                              !.start = start, !.amount = nz.amount,
                              !.word_len = nz.word_len, !.word_size = nz.word_size,
                              !.buffer = buffer,
                              !.asked = [amount |-> amount, word_len |-> word_len]]
    IN  IF data_size_byte(wl) = 0 THEN Done(j, RetErr("Response", ISO_INVALID_DATA_SIZE))
        ELSE IF pdu_length = 0 THEN Done(j, RetErr("PduLength", pdu_length))
        ELSE read_loop([j EXCEPT !.max_elements = TruncDiv(pdu_length - 18, nz.word_size),
                                 !.tot_elements = nz.amount, !.offset = 0])

\* the copy loop: for k in offset..size_requested { buffer[k] = response[i]; i += 1 }
CopyPanics(j, response) ==
    \E k \in j.offset..(j.size - 1) :
        k >= Len(j.buffer) \/ 25 + (k - j.offset) >= Len(response)

CopyResponse(j, response) ==
    [k \in 1..Len(j.buffer) |->
        IF j.offset <= k - 1 /\ k - 1 < j.size
        THEN At(response, 25 + (k - 1 - j.offset))
        ELSE j.buffer[k]]

\* a read that sends the chunk again when its exchange has failed
read_chunk_retrying(j, r) ==
    IF ~r.ok THEN {[j EXCEPT !.pc = "send"]}
    ELSE IF Len(r.resp) < 25 THEN {Done(j, RetErr("Response", ISO_INVALID_DATA_SIZE))}
    ELSE IF At(r.resp, 21) # 255 THEN {Done(j, RetErr("CPU", At(r.resp, 21)))}
    ELSE {read_loop([j EXCEPT !.offset = j.offset + j.size,
                              !.tot_elements = j.tot_elements - j.num_elements,
                              !.start = j.start + j.num_elements * j.word_size])}

\* a read that takes any response of 25 bytes or more for a good one
read_chunk_unmarked(j, r) ==
    IF ~r.ok THEN {Done(j, r)}
    ELSE IF Len(r.resp) < 25 THEN {Done(j, RetErr("Response", ISO_INVALID_DATA_SIZE))}
    ELSE (IF j.size < 0 \/ CopyPanics(j, r.resp) THEN {Panic(j)} ELSE {}) \cup
         (IF CopyPanics(j, r.resp) THEN {}
          ELSE {read_loop([j EXCEPT !.buffer = CopyResponse(j, r.resp),
                                    !.offset = j.offset + j.size,
                                    !.tot_elements = j.tot_elements - j.num_elements,
                                    !.start = j.start + j.num_elements * j.word_size])})

\* the rest of one loop turn of read once send has returned r: the set of
\* outcomes (25 + size_requested overflows when size_requested is negative:
\* a panic with overflow checks, a wrapped value without)
read_chunk(j, r) ==
    IF ~r.ok THEN {Done(j, r)}
    ELSE IF Len(r.resp) < 25 THEN {Done(j, RetErr("Response", ISO_INVALID_DATA_SIZE))}
    ELSE IF At(r.resp, 21) # 255 THEN {Done(j, RetErr("CPU", At(r.resp, 21)))}
    ELSE (IF j.size < 0 \/ CopyPanics(j, r.resp) THEN {Panic(j)} ELSE {}) \cup
         (IF CopyPanics(j, r.resp) THEN {}
          ELSE {read_loop([j EXCEPT !.buffer = CopyResponse(j, r.resp),
                                    !.offset = j.offset + j.size,
                                    !.tot_elements = j.tot_elements - j.num_elements,
                                    !.start = j.start + j.num_elements * j.word_size])})


\* buffer[offset..offset + data_size] is no slice of the buffer
SlicePanics(j) ==
    j.offset < 0 \/ j.size < 0 \/ j.offset + j.size > Len(j.buffer)

\* a write telegram that carries the length of [33..35] at [15..17] as well
WriteRequest_one_length(j) ==
    LET special == j.word_len \in {WL_BIT, WL_COUNTER, WL_TIMER}
        length == IF special THEN j.size ELSE j.size * 8
        r1 == write_u16(READ_WRITE_TELEGRAM, 2, SIZE_HEADER_WRITE + j.size)
        r2 == write_u16(r1, 15, length)
        r3 == Put(Put(r2, 17, 5), 27, j.area)
        r4 == IF j.area = AreaDataBausteine THEN write_u16(r3, 25, j.db_number) ELSE r3
        r5 == IF special THEN Put(r4, 22, AsU8(j.word_len)) ELSE r4
        r6 == PutAddress(write_u16(r5, 23, j.num_elements), Address(j.word_len, j.start))
        r7 == Put(r6, 32, CASE j.word_len = WL_BIT -> TS_RES_BIT
                            [] j.word_len \in {WL_COUNTER, WL_TIMER} -> TS_RES_OCTET
                            [] OTHER -> TS_RES_BYTE)
    IN  write_u16(r7, 33, length) \o Slice(j.buffer, j.offset, j.offset + j.size)

\* a write telegram that carries the data block number for every area
WriteRequest_any_db(j) ==
    LET special == j.word_len \in {WL_BIT, WL_COUNTER, WL_TIMER}
        r1 == write_u16(READ_WRITE_TELEGRAM, 2, SIZE_HEADER_WRITE + j.size)
        r2 == write_u16(r1, 15, j.size + 4)
        r3 == Put(Put(r2, 17, 5), 27, j.area)
        r4 == write_u16(r3, 25, j.db_number)
        length == IF special THEN j.size ELSE j.size * 8
        r5 == IF special THEN Put(r4, 22, AsU8(j.word_len)) ELSE r4
        r6 == PutAddress(write_u16(r5, 23, j.num_elements), Address(j.word_len, j.start))
        r7 == Put(r6, 32, CASE j.word_len = WL_BIT -> TS_RES_BIT
                            [] j.word_len \in {WL_COUNTER, WL_TIMER} -> TS_RES_OCTET
                            [] OTHER -> TS_RES_BYTE)
    IN  write_u16(r7, 33, length) \o Slice(j.buffer, j.offset, j.offset + j.size)

\* the telegram of one write chunk of j.num_elements elements
WriteRequest(j) ==
    LET special == j.word_len \in {WL_BIT, WL_COUNTER, WL_TIMER}
        r1 == write_u16(READ_WRITE_TELEGRAM, 2, SIZE_HEADER_WRITE + j.size)
        r2 == write_u16(r1, 15, j.size + 4)
        r3 == Put(Put(r2, 17, 5), 27, j.area)
        r4 == IF j.area = AreaDataBausteine THEN write_u16(r3, 25, j.db_number) ELSE r3
        length == IF special THEN j.size ELSE j.size * 8
        r5 == IF special THEN Put(r4, 22, AsU8(j.word_len)) ELSE r4
        r6 == PutAddress(write_u16(r5, 23, j.num_elements), Address(j.word_len, j.start))
        r7 == Put(r6, 32, CASE j.word_len = WL_BIT -> TS_RES_BIT
                            [] j.word_len \in {WL_COUNTER, WL_TIMER} -> TS_RES_OCTET
                            [] OTHER -> TS_RES_BYTE)
    IN  write_u16(r7, 33, length) \o Slice(j.buffer, j.offset, j.offset + j.size)

\* a write loop that puts all the remaining elements into one telegram
write_loop_uncapped(j) ==
    IF j.tot_elements > 0
    THEN LET n  == j.tot_elements
             j1 == [j EXCEPT !.num_elements = n, !.size = n * j.word_size]
         IN  IF SlicePanics(j1) THEN Panic(j1) ELSE [j1 EXCEPT !.pc = "send"]
    ELSE Done(j, RetOk(<<>>))

\* the head of write's while loop
write_loop(j) ==
    IF j.tot_elements > 0
    THEN LET n  == Min(j.tot_elements, j.max_elements)
             j1 == [j EXCEPT !.num_elements = n, !.size = n * j.word_size]
         IN  IF SlicePanics(j1) THEN Panic(j1) ELSE [j1 EXCEPT !.pc = "send"]
    ELSE Done(j, RetOk(<<>>))

\* a write that looks at the element size only after the adjustments
write_sized_late(area, db_number, start, amount, word_len, buffer, pdu_length) ==
    LET nz == Normalize(area, amount, word_len)
        j  == [IdleJob EXCEPT !.op = "write", !.area = area, !.db_number = db_number,
                              !.start = start, !.amount = nz.amount,
                              !.word_len = nz.word_len, !.word_size = nz.word_size,
                              !.buffer = buffer,
                              !.asked = [amount |-> amount, word_len |-> word_len]]
    IN  IF nz.word_size = 0 THEN Done(j, RetErr("Response", ISO_INVALID_DATA_SIZE))
        ELSE write_loop([j EXCEPT !.max_elements = TruncDiv(pdu_length - 35, nz.word_size),
                                  !.tot_elements = nz.amount, !.offset = 0])

\* write from its entry to the first send or an early return
write(area, db_number, start, amount, word_len, buffer, pdu_length) ==
    LET wl == IF area = AreaCounter THEN WL_COUNTER
              ELSE IF area = AreaTimer THEN WL_TIMER ELSE word_len
        nz == Normalize(area, amount, word_len)
        j  == [IdleJob EXCEPT !.op = "write", !.area = area, !.db_number = db_number,
                              !.start = start, !.amount = nz.amount,
                              !.word_len = nz.word_len, !.word_size = nz.word_size,
                              !.buffer = buffer,
                              !.asked = [amount |-> amount, word_len |-> word_len]]
    IN  IF data_size_byte(wl) = 0 THEN Done(j, RetErr("Response", ISO_INVALID_DATA_SIZE))
        ELSE write_loop([j EXCEPT !.max_elements = TruncDiv(pdu_length - 35, nz.word_size),
                                  !.tot_elements = nz.amount, !.offset = 0])

\* a write that does not move start on after a chunk
write_chunk_same_start(j, r) ==
    IF ~r.ok THEN Done(j, r)
    ELSE IF Len(r.resp) # 22 THEN Done(j, RetErr("Response", ISO_INVALID_PDU))
    ELSE IF At(r.resp, 21) # 255 THEN Done(j, RetErr("CPU", At(r.resp, 21)))
    ELSE write_loop([j EXCEPT !.offset = j.offset + j.size,
                              !.tot_elements = j.tot_elements - j.num_elements])

\* a write that accepts every response of 22 bytes or more
write_chunk_at_least(j, r) ==
    IF ~r.ok THEN Done(j, r)
    ELSE IF Len(r.resp) < 22 THEN Done(j, RetErr("Response", ISO_INVALID_PDU))
    ELSE IF At(r.resp, 21) # 255 THEN Done(j, RetErr("CPU", At(r.resp, 21)))
    ELSE write_loop([j EXCEPT !.offset = j.offset + j.size,
                              !.tot_elements = j.tot_elements - j.num_elements,
                              !.start = j.start + j.num_elements * j.word_size])

\* the rest of one loop turn of write once send has returned r
write_chunk(j, r) ==
    IF ~r.ok THEN Done(j, r)
    ELSE IF Len(r.resp) # 22 THEN Done(j, RetErr("Response", ISO_INVALID_PDU))
    ELSE IF At(r.resp, 21) # 255 THEN Done(j, RetErr("CPU", At(r.resp, 21)))
    ELSE write_loop([j EXCEPT !.offset = j.offset + j.size,
                              !.tot_elements = j.tot_elements - j.num_elements,
                              !.start = j.start + j.num_elements * j.word_size])

\* the caller's buffers: zeroed for a read, a pattern for a write
ReadBuffer(n) == Zeros(n)

WriteBuffer(n) == [i \in 1..n |-> 160 + i]

\* the least amount a pdu length that lets write work (36) splits into two read chunks
TwoChunkAmount == SIZE_HEADER_WRITE + 1 - 18 + 1

Amounts == (1..MaxAmount) \cup {TwoChunkAmount}

\* the targets of the public calls: ag_* (a data block), mb_* (merkers)
Targets ==
    {[area |-> AreaDataBausteine, db |-> 1, start |-> s, amount |-> n] :
        s \in 0..MaxStart, n \in Amounts}
    \cup {[area |-> AreaMerker, db |-> 0, start |-> 0, amount |-> n] : n \in Amounts}

CanCall(c) ==
    /\ c \in callers
    /\ client = "ready"
    /\ job[c].pc = "idle"
    /\ ops < MaxOps

\* the request of the chunk job j is about to send
Request(j) == IF j.op = "read" THEN ReadRequest(j) ELSE WriteRequest(j)

\* the response r passes the checks of the read resp. write loop
Accepted(op, r) ==
    /\ r.ok
    /\ IF op = "read" THEN Len(r.resp) >= 25 ELSE Len(r.resp) = 22
    /\ At(r.resp, 21) = 255

\* j1 follows j in the job: the history of the job is kept
Sends(j1) ==
    [j1 EXCEPT !.nsent = IF j1.pc = "send" THEN @ + 1 ELSE @,
               !.sizes = IF j1.pc = "send" THEN Append(@, ReqCount(Request(j1))) ELSE @]

Acks(j, j1, r) ==
    IF Accepted(j.op, r) /\ j1.pc # "panic"
    THEN [j1 EXCEPT !.acked = @ + 1,
                    !.payload = IF j.op = "read" /\ j.size >= 0
                                THEN @ \o Slice(r.resp, 25, Min(25 + j.size, Len(r.resp)))
                                ELSE @]
    ELSE j1

\* the chunk job j1 is entered: its first request goes to send, or it has returned
Enter(c, j1) ==
    /\ job' = [job EXCEPT ![c] = Sends(j1)]
    /\ snd' = [snd EXCEPT ![c] = IF j1.pc = "send" THEN CallSend(Request(j1)) ELSE IdleSend]
    /\ ops' = ops + 1

\* the job goes on to j1 after a send has returned r
Continue(c, j1, r) ==
    /\ j1.pc = "send" => job[c].nsent < MaxChunks
    /\ job' = [job EXCEPT ![c] = Sends(Acks(job[c], j1, r))]
    /\ snd' = [snd EXCEPT ![c] = IF j1.pc = "send" THEN CallSend(Request(j1)) ELSE IdleSend]

\* ag_read / mb_read
ReadCall(c) ==
    /\ CanCall(c)
    /\ Enter(c, read(target.area, target.db, target.start, target.amount, WL_BYTE,
                     ReadBuffer(target.amount), opts.pdu_length))
    /\ UNCHANGED <<conf, client, opts, lock, inbuf, peerq, mem, hshake, peerFrame, mon, faults>>

\* read after a send has returned
ReadReturn(c) ==
    /\ job[c].op = "read"
    /\ job[c].pc = "send"
    /\ snd[c].pc = "ret"
    /\ \E j1 \in read_chunk(job[c], snd[c].ret) : Continue(c, j1, snd[c].ret)
    /\ UNCHANGED <<conf, client, opts, lock, inbuf, peerq, mem, hshake, peerFrame, mon, ops,
                   faults>>

\* ag_write / mb_write
WriteCall(c) ==
    /\ CanCall(c)
    /\ Enter(c, write(target.area, target.db, target.start, target.amount, WL_BYTE,
                      WriteBuffer(target.amount), opts.pdu_length))
    /\ UNCHANGED <<conf, client, opts, lock, inbuf, peerq, mem, hshake, peerFrame, mon, faults>>

\* write after a send has returned
WriteReturn(c) ==
    /\ job[c].op = "write"
    /\ job[c].pc = "send"
    /\ snd[c].pc = "ret"
    /\ Continue(c, write_chunk(job[c], snd[c].ret), snd[c].ret)
    /\ UNCHANGED <<conf, client, opts, lock, inbuf, peerq, mem, hshake, peerFrame, mon, ops,
                   faults>>

(***************************************************************************)
(* CPU control: start, restart, stop.                                      *)
(***************************************************************************)
ControlArgs(op) ==
    CASE op = "start" ->
           [req |-> COLD_START_TELEGRAM, start_cmp |-> PDU_START,
            start |-> CLI_CANNOT_START_PLC, already_cmp |-> PDU_ALREADY_STARTED,
            already |-> CLI_ALREADY_RUN]
      [] op = "restart" ->
           [req |-> WARM_START_TELEGRAM, start_cmp |-> PDU_START,
            start |-> CLI_CANNOT_START_PLC, already_cmp |-> PDU_ALREADY_STARTED,
            already |-> CLI_ALREADY_RUN]
      [] op = "stop" ->
           [req |-> STOP_TELEGRAM, start_cmp |-> PDU_STOP,
            start |-> CLI_CANNOT_STOP_PLC, already_cmp |-> PDU_ALREADY_STOPPED,
            already |-> CLI_ALREADY_STOP]

\* cold_warm_start_stop testing the already-in-that-state marker first
cold_warm_start_stop_marker_first(a, r) ==
    IF ~r.ok THEN r
    ELSE IF Len(r.resp) < TELEGRAM_MIN_RESPONSE THEN RetErr("Response", ISO_INVALID_PDU)
    ELSE IF At(r.resp, 18) = a.already_cmp THEN RetErr("Response", a.already)
    ELSE IF At(r.resp, 17) # a.start_cmp THEN RetErr("Response", a.start)
    ELSE RetOk(<<>>)

\* cold_warm_start_stop rejecting a response of TELEGRAM_MIN_RESPONSE bytes too
cold_warm_start_stop_above_min(a, r) ==
    IF ~r.ok THEN r
    ELSE IF Len(r.resp) <= TELEGRAM_MIN_RESPONSE THEN RetErr("Response", ISO_INVALID_PDU)
    ELSE IF At(r.resp, 17) # a.start_cmp THEN RetErr("Response", a.start)
    ELSE IF At(r.resp, 18) = a.already_cmp THEN RetErr("Response", a.already)
    ELSE RetOk(<<>>)

\* cold_warm_start_stop once its send has returned r
cold_warm_start_stop(a, r) ==
    IF ~r.ok THEN r
    ELSE IF Len(r.resp) < TELEGRAM_MIN_RESPONSE THEN RetErr("Response", ISO_INVALID_PDU)
    ELSE IF At(r.resp, 17) # a.start_cmp THEN RetErr("Response", a.start)
    ELSE IF At(r.resp, 18) = a.already_cmp THEN RetErr("Response", a.already)
    ELSE RetOk(<<>>)

ControlOps == {"start", "restart", "stop"}

\* start() / restart() / stop()
ControlCall(c) ==
    /\ CanCall(c)
    /\ \E op \in ControlOps :
         /\ job' = [job EXCEPT ![c] = [IdleJob EXCEPT !.op = op, !.pc = "send", !.nsent = 1]]
         /\ snd' = [snd EXCEPT ![c] = CallSend(ControlArgs(op).req)]
         /\ ops' = ops + 1
    /\ UNCHANGED <<conf, client, opts, lock, inbuf, peerq, mem, hshake, peerFrame, mon, faults>>

ControlReturn(c) ==
    /\ job[c].op \in ControlOps
    /\ job[c].pc = "send"
    /\ snd[c].pc = "ret"
    /\ job' = [job EXCEPT ![c] = Done(job[c], cold_warm_start_stop(ControlArgs(job[c].op),
                                                                  snd[c].ret))]
    /\ snd' = [snd EXCEPT ![c] = IdleSend]
    /\ UNCHANGED <<conf, client, opts, lock, inbuf, peerq, mem, hshake, peerFrame, mon, ops,
                   faults>>

\* the caller takes the value the operation returned
Finish(c) ==
    /\ job[c].pc = "done"
    /\ job[c].op # "read_szl"
    /\ job' = [job EXCEPT ![c] = IdleJob]
    /\ UNCHANGED <<conf, client, opts, lock, inbuf, peerq, mem, snd, hshake, peerFrame, mon,
                   ops, faults>>

(***************************************************************************)
(* Client over any implementation of the Transport trait: send returns     *)
(* what the implementation chooses.                                        *)
(***************************************************************************)
\* u16 arithmetic: the wrapped value without overflow checks, a panic with
\* them; the set of the values the operation goes on with (none: it panics)
U16Overflows(n) == n < 0 \/ n >= 65536

\* the check read_szl makes of a response
validate(res, size) ==
    IF Len(res) < MIN_SZL_FIRST_TELEGRAM + size
    THEN RetErr("Response", ISO_INVALID_PDU)
    ELSE IF read_u16(res, 27) # 0 /\ At(res, 29) # 255
    THEN RetErr("CPU", CLI_INVALID_PLC_ANSWER)
    ELSE RetOk(<<>>)

SzlFirstRequest(id, index) ==
    write_u16(write_u16(write_u16(SZL_FIRST_TELEGRAM, 11, 1), 29, id), 31, index)

\* the continuation request without the sequence of the response before
SzlNextRequest_unsequenced(j) == SZL_NEXT_TELEGRAM

SzlNextRequest(j) == Put(SZL_NEXT_TELEGRAM, 24, j.szl.seq_in)

\* the head of read_szl's while loop
szl_loop(j) == IF j.szl.done THEN Done(j, RetOk(<<>>)) ELSE [j EXCEPT !.pc = "send"]

\* read_szl from the first response to the loop, data_szl and length_header
\* given (they are computed in u16)
szl_first_rest(j, res, data_szl, length_header) ==
    IF ~validate(res, data_szl).ok THEN Done(j, validate(res, data_szl))
    ELSE szl_loop([j EXCEPT !.szl = [length_header |-> length_header,
                                     number_of_data_record |-> read_u16(res, 39),
                                     data |-> Slice(res, 41, 41 + data_szl),
                                     seq_in |-> At(res, 24),
                                     done |-> At(res, 26) = 0,
                                     len |-> data_szl,
                                     offset |-> data_szl,
                                     data_szl |-> data_szl,
                                     id |-> j.szl.id]])

\* read_szl after its first send has returned r: the set of outcomes
szl_first(j, r) ==
    IF ~r.ok THEN {Done(j, r)}
    ELSE IF ~validate(r.resp, 0).ok THEN {Done(j, validate(r.resp, 0))}
    ELSE LET d  == read_u16(r.resp, 31) - 8
             lh == read_u16(r.resp, 37) * 2
         IN  (IF U16Overflows(d) THEN {Panic(j)} ELSE {}) \cup
             (IF validate(r.resp, d % 65536).ok /\ U16Overflows(lh) THEN {Panic(j)} ELSE {})
             \cup {szl_first_rest(j, r.resp, d % 65536, lh % 65536)}

\* one turn of read_szl's loop after its send has returned r
szl_next(j, r) ==
    IF ~r.ok THEN {Done(j, r)}
    ELSE IF ~validate(r.resp, 0).ok THEN {Done(j, validate(r.resp, 0))}
    ELSE LET d   == read_u16(r.resp, 31)
             off == j.szl.offset + d
             lh  == j.szl.length_header + j.szl.length_header
         IN  (IF U16Overflows(off) \/ U16Overflows(lh) THEN {Panic(j)} ELSE {}) \cup
             {szl_loop([j EXCEPT !.szl.data_szl = d,
                                 !.szl.done = At(r.resp, 26) = 0,
                                 !.szl.seq_in = At(r.resp, 24),
                                 !.szl.data = Zeros(j.szl.len),
                                 !.szl.offset = off % 65536,
                                 !.szl.length_header = lh % 65536])}

\* the SZL queries of cp_info and cpu_info
SzlQueries == {<<305, 0>>, <<28, 0>>}

\* a response to an SZL request: sequence, more-follows, return code, byte
\* [29], length field, header length, record count, and the bytes from [41]
SzlFrame(len, seq, more, rc, b29, dlen, lh) ==
    Frame(len, (24 :> seq) @@ (26 :> more) @@ (27 :> rc \div 256) @@ (28 :> rc % 256)
               @@ (29 :> b29) @@ (31 :> dlen \div 256) @@ (32 :> dlen % 256)
               @@ (37 :> lh \div 256) @@ (38 :> lh % 256) @@ (40 :> 1)
               @@ [k \in 41..(len - 1) |-> 200 + seq * 10 + (k - 41)])

SzlResponses ==
    {SzlFrame(len, seq, more, rc, b29, dlen, lh) :
        len \in {41, 42, 44, 54}, seq \in 1..2, more \in {0, 1}, rc \in {0, 1},
        b29 \in {0, 255}, dlen \in {7, 8, 10, 20}, lh \in {2, 32768}}

\* a response to the status request: length, return code, status byte
StatusFrame(len, rc, b44) ==
    Frame(len, (27 :> rc \div 256) @@ (28 :> rc % 256) @@ (44 :> b44))

StatusResponses ==
    {StatusFrame(len, rc, b44) :
        len \in {44, 45, 46}, rc \in {0, 1, 256, 54273}, b44 \in {0, 4, 8, 5, 255}}

\* responses to a read or write request: the data asked for, a CPU error
\* code at [21], a response too short or too long
RwResponses(req) ==
    IF IsReadReq(req)
    THEN LET size == ReqCount(req) * (IF At(req, 22) \in {WL_COUNTER, WL_TIMER} THEN 2 ELSE 1)
         IN  {Frame(25 + size, (21 :> 255) @@ [k \in 25..(24 + size) |-> 100 + (k - 25)]),
              Frame(25 + size, (21 :> 5)),
              Frame(25, (21 :> 255)),
              Frame(24, (21 :> 255))}
    ELSE {Frame(22, (21 :> 255)), Frame(22, (21 :> 5)), Frame(23, (21 :> 255)),
          Frame(21, (20 :> 255))}

\* what an implementation of Transport::send may return for a request
IsStatusReq(r) == r = PLC_STATUS_TELEGRAM

IsSzlReq(r) == Len(r) = 33 /\ At(r, 22) = 68 /\ ~IsStatusReq(r)

MockReturns(req) ==
    {RetErr("Io", 0)} \cup
    (IF IsSzlReq(req) THEN {RetOk(f) : f \in SzlResponses} ELSE {}) \cup
    (IF IsStatusReq(req) THEN {RetOk(f) : f \in StatusResponses} ELSE {}) \cup
    (IF IsReadReq(req) \/ IsWriteReq(req) THEN {RetOk(f) : f \in RwResponses(req)} ELSE {})

\* Transport::send of the implementation: it returns at once
MockSend(c) ==
    /\ snd[c].pc = "lock"
    /\ \E r \in MockReturns(snd[c].request) :
         snd' = [snd EXCEPT ![c].pc = "ret", ![c].ret = r]
    /\ UNCHANGED <<conf, client, opts, lock, inbuf, peerq, mem, job, hshake, peerFrame, mon,
                   ops, faults>>

\* read_szl(id, index), as cp_info and cpu_info call it
SzlCall(c) ==
    /\ CanCall(c)
    /\ \E q \in SzlQueries :
         /\ job' = [job EXCEPT ![c] = [IdleJob EXCEPT !.op = "read_szl", !.pc = "first",
                                                      !.nsent = 1, !.szl.id = q[1]]]
         /\ snd' = [snd EXCEPT ![c] = CallSend(SzlFirstRequest(q[1], q[2]))]
    /\ ops' = ops + 1
    /\ UNCHANGED <<conf, client, opts, lock, inbuf, peerq, mem, hshake, peerFrame, mon, faults>>

\* the payload a response adds to the list: of the first response the bytes
\* [41..41+data_len], of a later one the bytes from [41]
SzlPayload(j, j1, r) ==
    IF ~r.ok \/ j1.pc = "panic" \/ j1.szl = j.szl THEN <<>>
    ELSE IF j.pc = "first" THEN Slice(r.resp, 41, 41 + j1.szl.data_szl)
    ELSE Slice(r.resp, 41, Len(r.resp))

\* read_szl goes on after a send has returned
SzlReturn(c) ==
    /\ job[c].op = "read_szl"
    /\ job[c].pc \in {"first", "send"}
    /\ snd[c].pc = "ret"
    /\ \E j1 \in (IF job[c].pc = "first" THEN szl_first(job[c], snd[c].ret)
                  ELSE szl_next(job[c], snd[c].ret)) :
         /\ j1.pc = "send" => job[c].nsent <= MaxSzlNext
         /\ job' = [job EXCEPT ![c] =
                [j1 EXCEPT !.nsent = IF j1.pc = "send" THEN @ + 1 ELSE @,
                           !.payload = @ \o SzlPayload(job[c], j1, snd[c].ret)]]
         /\ snd' = [snd EXCEPT ![c] = IF j1.pc = "send" THEN CallSend(SzlNextRequest(j1))
                                      ELSE IdleSend]
    /\ UNCHANGED <<conf, client, opts, lock, inbuf, peerq, mem, hshake, peerFrame, mon, ops,
                   faults>>

\* cp_info once read_szl has returned Ok(szl): four be_u16 of szl.data, read
\* without a test of its length; szl.data[10..] of fewer than 12 bytes has
\* no two bytes to read
cp_info(szl) ==
    IF Len(szl.data) < 12 THEN RetErr("panic", 0)
    ELSE RetOk(<<read_u16(szl.data, 2), read_u16(szl.data, 4), read_u16(szl.data, 6),
                 read_u16(szl.data, 10)>>)

\* cpu_info once read_szl has returned Ok(szl): the five names are taken as
\* UTF-8 from fixed ranges below 204
cpu_info(szl) ==
    IF Len(szl.data) < SZL_MIN_RESPONSE THEN {RetErr("Response", ISO_INVALID_PDU)}
    ELSE {RetOk(<<>>)} \cup
         (IF \E k \in 2..203 : At(szl.data, k) >= 128 THEN {RetErr("InvalidResponse", 0)}
          ELSE {})

\* cp_info resp. cpu_info goes on after its read_szl has returned
InfoReturn(c) ==
    /\ job[c].op = "read_szl"
    /\ job[c].pc = "done"
    /\ LET info == IF job[c].szl.id = 305 THEN "cp_info" ELSE "cpu_info"
           rets == IF ~job[c].result.ok THEN {job[c].result}
                   ELSE IF info = "cp_info" THEN {cp_info(job[c].szl)}
                   ELSE cpu_info(job[c].szl)
       IN  \E r \in rets :
              job' = [job EXCEPT ![c] = IF r.k = "panic" THEN Panic([job[c] EXCEPT !.op = info])
                                        ELSE [job[c] EXCEPT !.op = info, !.result = r]]
    /\ UNCHANGED <<conf, client, opts, lock, inbuf, peerq, mem, snd, hshake, peerFrame, mon,
                   ops, faults>>

\* CpuStatus::from_u8
from_u8(value) ==
    CASE value = CPU_STATUS_UNKNOWN -> [ok |-> TRUE, k |-> "Unknown", v |-> 0, resp |-> <<>>]
      [] value = CPU_STATUS_STOP -> [ok |-> TRUE, k |-> "Stop", v |-> 0, resp |-> <<>>]
      [] value = CPU_STATUS_RUN -> [ok |-> TRUE, k |-> "Run", v |-> 0, resp |-> <<>>]
      [] OTHER -> RetErr("InvalidCpuStatus", value)

\* plc_status with the length check off by one
plc_status_above_min(r) ==
    IF ~r.ok THEN r
    ELSE IF Len(r.resp) <= PLC_STATUS_MIN_RESPONSE THEN RetErr("Response", ISO_INVALID_PDU)
    ELSE LET result == read_u16(r.resp, 27)
         IN  IF result # 0 THEN RetErr("CPU", result) ELSE from_u8(At(r.resp, 44))

\* plc_status after send has returned r
plc_status(r) ==
    IF ~r.ok THEN r
    ELSE IF Len(r.resp) < PLC_STATUS_MIN_RESPONSE THEN RetErr("Response", ISO_INVALID_PDU)
    ELSE LET result == read_u16(r.resp, 27)
         IN  IF result # 0 THEN RetErr("CPU", result) ELSE from_u8(At(r.resp, 44))

\* plc_status(): the status telegram goes to send
StatusCall(c) ==
    /\ CanCall(c)
    /\ job' = [job EXCEPT ![c] = [IdleJob EXCEPT !.op = "plc_status", !.pc = "send",
                                                 !.nsent = 1]]
    /\ snd' = [snd EXCEPT ![c] = CallSend(PLC_STATUS_TELEGRAM)]
    /\ ops' = ops + 1
    /\ UNCHANGED <<conf, client, opts, lock, inbuf, peerq, mem, hshake, peerFrame, mon, faults>>

\* plc_status returns
StatusReturn(c) ==
    /\ job[c].op = "plc_status"
    /\ job[c].pc = "send"
    /\ snd[c].pc = "ret"
    /\ job' = [job EXCEPT ![c] = Done(job[c], plc_status(snd[c].ret))]
    /\ snd' = [snd EXCEPT ![c] = IdleSend]
    /\ UNCHANGED <<conf, client, opts, lock, inbuf, peerq, mem, hshake, peerFrame, mon, ops,
                   faults>>

\* the arguments read and write are called with, and the PDU lengths
RwArgs ==
    {[area |-> a, db |-> d, start |-> st, amount |-> n, word_len |-> w] :
        a \in {AreaProcessInput, AreaProcessOutput, AreaMerker, AreaDataBausteine,
               AreaCounter, AreaTimer},
        d \in {1, 888}, st \in {0, 8, 65537}, n \in {1, 3, 5},
        w \in {WL_BIT, WL_BYTE, WL_CHAR, WL_WORD, WL_INT, WL_DWORD, WL_DINT, WL_REAL,
               WL_COUNTER, WL_TIMER, 0}}

RwPdus == {20, 37, PDU_SIZE_REQUESTED}

\* the caller's buffer holds the bytes of the elements asked for
RwBufLen(a) ==
    IF Normalize(a.area, a.amount, a.word_len).amount = 0 THEN a.amount
    ELSE Normalize(a.area, a.amount, a.word_len).amount
            * Normalize(a.area, a.amount, a.word_len).word_size

\* read(area, db_number, start, amount, word_len, buffer)
RwReadCall(c) ==
    /\ CanCall(c)
    /\ \E a \in RwArgs :
         Enter(c, read(a.area, a.db, a.start, a.amount, a.word_len,
                       ReadBuffer(RwBufLen(a)), opts.pdu_length))
    /\ UNCHANGED <<conf, client, opts, lock, inbuf, peerq, mem, hshake, peerFrame, mon, faults>>

\* write(area, db_number, start, amount, word_len, buffer)
RwWriteCall(c) ==
    /\ CanCall(c)
    /\ \E a \in RwArgs :
         Enter(c, write(a.area, a.db, a.start, a.amount, a.word_len,
                        WriteBuffer(RwBufLen(a)), opts.pdu_length))
    /\ UNCHANGED <<conf, client, opts, lock, inbuf, peerq, mem, hshake, peerFrame, mon, faults>>

(***************************************************************************)
(* field::Bool.  Its offset is an f32: m * 2^exp with m below 2^24, and    *)
(* every f32 operation rounds to the nearest such value, ties to even.     *)
(***************************************************************************)
RECURSIVE Pow2(_)
Pow2(n) == IF n = 0 THEN 1 ELSE 2 * Pow2(n - 1)

\* n / d rounded to the nearest integer, ties to the even one
RoundEven(n, d) ==
    LET q == n \div d
        r == n % d
    IN  IF 2 * r > d \/ (2 * r = d /\ q % 2 = 1) THEN q + 1 ELSE q

RECURSIVE F32Exp(_, _)
F32Exp(t, k) == IF t * Pow2(k) >= 10 * Pow2(23) THEN k ELSE F32Exp(t, k + 1)

\* the f32 of the literal tenths / 10, as in Bool::new(888, 8.1, ...)
F32(tenths) ==
    IF tenths = 0 THEN [m |-> 0, exp |-> 0]
    ELSE LET k == F32Exp(tenths, 0)
         IN  [m |-> RoundEven(tenths * Pow2(k), 10), exp |-> 0 - k]

RECURSIVE F32Shift(_, _)
F32Shift(n, s) == IF n < Pow2(24 + s) THEN s ELSE F32Shift(n, s + 1)

\* x * 10.0
F32Mul10(x) ==
    LET s == F32Shift(x.m * 10, 0)
    IN  [m |-> RoundEven(x.m * 10, Pow2(s)), exp |-> x.exp + s]

\* x as usize, x not negative
AsUsize(x) == IF x.exp >= 0 THEN x.m * Pow2(x.exp) ELSE x.m \div Pow2(0 - x.exp)

\* ((offset * 10.0) as usize % 10) as u8
bit_offset(offset) == AsU8(AsUsize(F32Mul10(offset)) % 10)

RECURSIVE BitAnd(_, _)
BitAnd(a, b) ==
    IF a = 0 \/ b = 0 THEN 0 ELSE (a % 2) * (b % 2) + 2 * BitAnd(a \div 2, b \div 2)

RECURSIVE BitOr(_, _)
BitOr(a, b) ==
    IF a = 0 THEN b
    ELSE IF b = 0 THEN a
    ELSE (IF a % 2 = 1 \/ b % 2 = 1 THEN 1 ELSE 0) + 2 * BitOr(a \div 2, b \div 2)

\* !a and a << n on u8
BitNot8(a) == 255 - a

Shl8(a, n) == AsU8(a * Pow2(n))

BoolSize == 1

\* no Bool yet; tenths, bytes, nset and out are history: the arguments of
\* new, the number of set_value calls, what to_bytes returned since the last
NoField ==
    [st |-> "none", ty |-> "Bool", data_block |-> 0, offset |-> [m |-> 0, exp |-> 0],
     byte |-> 0, value |-> FALSE, tenths |-> 0, bytes |-> <<>>, nset |-> 0, out |-> <<>>]

Bool_new(data_block, offset, bytes) ==
    IF Len(bytes) # BoolSize THEN [NoField EXCEPT !.st = "TryFrom"]
    ELSE IF bit_offset(offset) > 7 THEN [NoField EXCEPT !.st = "TryFrom"]
    ELSE [NoField EXCEPT !.st = "ok", !.data_block = data_block, !.offset = offset,
                         !.byte = bytes[1],
                         !.value = BitAnd(bytes[1], Shl8(1, bit_offset(offset))) # 0]

set_value_at(b, bit_pos, val) ==
    IF val THEN BitOr(b, Shl8(1, bit_pos)) ELSE BitAnd(b, BitNot8(Shl8(1, bit_pos)))

\* a set_value that leaves the byte as it was
set_value_unencoded(f, v) == [f EXCEPT !.value = v]

set_value(f, v) ==
    [f EXCEPT !.value = v, !.byte = set_value_at(f.byte, bit_offset(f.offset), v)]

to_bytes(f) == <<f.byte>>

\* Field::offset: self.offset as i32
Bool_offset(f) == AsUsize(f.offset)

\* the offsets and byte vectors handed to Bool::new: offsets in tenths
Offsets == (0..19) \cup {84, 88, 655357, 10485767, 16777225}

ByteVecs == {<<>>} \cup {<<b>> : b \in 0..255} \cup {<<b, 0>> : b \in {0, 255}}

BoolNew ==
    /\ field.st = "none"
    /\ \E t \in Offsets, bytes \in ByteVecs :
         field' = [Bool_new(888, F32(t), bytes) EXCEPT !.tenths = t, !.bytes = bytes]
    /\ UNCHANGED <<callers, target, client, opts, lock, inbuf, peerq, mem, snd, job, hshake,
                   peerFrame, mon, ops, faults>>

BoolSetValue ==
    /\ field.st = "ok"
    /\ field.nset < MaxSets
    /\ \E v \in BOOLEAN :
         field' = [set_value(field, v) EXCEPT !.nset = @ + 1, !.out = <<>>]
    /\ UNCHANGED <<callers, target, client, opts, lock, inbuf, peerq, mem, snd, job, hshake,
                   peerFrame, mon, ops, faults>>

BoolToBytes ==
    /\ field.st = "ok"
    /\ field' = [field EXCEPT !.out = to_bytes(field)]
    /\ UNCHANGED <<callers, target, client, opts, lock, inbuf, peerq, mem, snd, job, hshake,
                   peerFrame, mon, ops, faults>>

(***************************************************************************)
(* field::Word and field::Float.  An f32 value is its sign, biased         *)
(* exponent and fraction, as BigEndian::read_f32 takes them from the bits. *)
(***************************************************************************)
WordSize == 2

FloatSize == 4

read_f32(b) ==
    [sign |-> b[1] \div 128,
     exponent |-> (b[1] % 128) * 2 + b[2] \div 128,
     fraction |-> (b[2] % 128) * 65536 + b[3] * 256 + b[4]]

write_f32(x) ==
    <<x.sign * 128 + x.exponent \div 2,
      (x.exponent % 2) * 128 + x.fraction \div 65536,
      (x.fraction \div 256) % 256,
      x.fraction % 256>>

Word_new(data_block, offset, bytes) ==
    IF Len(bytes) # WordSize THEN [NoField EXCEPT !.st = "TryFrom", !.ty = "Word"]
    ELSE IF bit_offset(offset) # 0 THEN [NoField EXCEPT !.st = "TryFrom", !.ty = "Word"]
    ELSE [NoField EXCEPT !.st = "ok", !.ty = "Word", !.data_block = data_block,
                         !.offset = offset, !.value = read_u16(bytes, 0)]

Float_new(data_block, offset, bytes) ==
    IF Len(bytes) # FloatSize THEN [NoField EXCEPT !.st = "TryFrom", !.ty = "Float"]
    ELSE IF bit_offset(offset) # 0 THEN [NoField EXCEPT !.st = "TryFrom", !.ty = "Float"]
    ELSE [NoField EXCEPT !.st = "ok", !.ty = "Float", !.data_block = data_block,
                         !.offset = offset, !.value = read_f32(bytes)]

Word_to_bytes(f) == write_u16(Zeros(WordSize), 0, f.value)

Float_to_bytes(f) == write_f32(f.value)

\* the offsets, buffers and values handed to Word and Float
NumOffsets == {0, 80, 81, 89, 655350, 33554450}

WordValues == {0, 1, 255, 256, 43981, 65535}

FloatBufs == {<<66, 86, 0, 0>>, <<0, 0, 0, 0>>, <<191, 128, 0, 1>>, <<127, 127, 255, 255>>}

NumBufs ==
    {<<>>, <<7>>, <<1, 2, 3>>, <<1, 2, 3, 4, 5>>}
    \cup {<<v \div 256, v % 256>> : v \in WordValues} \cup FloatBufs

NumNew ==
    /\ field.st = "none"
    /\ \E t \in NumOffsets, bytes \in NumBufs :
         \/ field' = [Word_new(888, F32(t), bytes) EXCEPT !.tenths = t, !.bytes = bytes]
         \/ field' = [Float_new(888, F32(t), bytes) EXCEPT !.tenths = t, !.bytes = bytes]
    /\ UNCHANGED <<callers, target, client, opts, lock, inbuf, peerq, mem, snd, job, hshake,
                   peerFrame, mon, ops, faults>>

\* Word::set_value, Float::set_value
NumSetValue ==
    /\ field.st = "ok"
    /\ field.nset < MaxSets
    /\ \E v \in (IF field.ty = "Word" THEN WordValues ELSE {read_f32(b) : b \in FloatBufs}) :
         field' = [field EXCEPT !.value = v, !.nset = @ + 1, !.out = <<>>]
    /\ UNCHANGED <<callers, target, client, opts, lock, inbuf, peerq, mem, snd, job, hshake,
                   peerFrame, mon, ops, faults>>

NumToBytes ==
    /\ field.st = "ok"
    /\ field' = [field EXCEPT !.out = IF field.ty = "Word" THEN Word_to_bytes(field)
                                      ELSE Float_to_bytes(field)]
    /\ UNCHANGED <<callers, target, client, opts, lock, inbuf, peerq, mem, snd, job, hshake,
                   peerFrame, mon, ops, faults>>

(***************************************************************************)
(* Specifications.                                                         *)
(***************************************************************************)
\* tcp::Options::new for rack 5, slot 5, a PG connection
OptionsNew ==
    [rack |-> 5, slot |-> 5, conn_type |-> ConnectionPG, local_tsap_high |-> 0,
     local_tsap_low |-> 0, remote_tsap_high |-> 0, remote_tsap_low |-> 0,
     last_pdu_type |-> 0, pdu_length |-> 0]

InitWith(cs, ts) ==
    /\ callers = cs
    /\ target \in ts
    /\ client = "none"
    /\ opts = OptionsNew
    /\ lock = 0
    /\ inbuf = <<>>
    /\ peerq = <<>>
    /\ mem = <<>>
    /\ snd = [c \in Callers |-> IdleSend]
    /\ job = [c \in Callers |-> IdleJob]
    /\ hshake = <<>>
    /\ peerFrame = <<>>
    /\ mon = [outstanding |-> 0, failed |-> FALSE]
    /\ ops = 0
    /\ faults = 0
    /\ field = NoField

\* one caller, every operation
Init == InitWith({1}, Targets)

Next ==
    \/ PeerRespond
    \/ PeerSilent
    \/ \E c \in callers : SendLock(c)
    \/ \E c \in callers : SendWrite(c)
    \/ \E c \in callers : SendWriteShort(c)
    \/ \E c \in callers : SendWriteFails(c)
    \/ \E c \in callers : SendReadHeader(c)
    \/ \E c \in callers : SendReadKeepalive(c)
    \/ \E c \in callers : SendReadCotp(c)
    \/ \E c \in callers : SendReadPayload(c)
    \/ \E c \in callers : SendReadTimeout(c)
    \/ \E c \in callers : NewClient(c)
    \/ \E c \in callers : IsoConnectReturn(c)
    \/ \E c \in callers : NegotiateReturn(c)
    \/ \E c \in callers : ReadCall(c)
    \/ \E c \in callers : ReadReturn(c)
    \/ \E c \in callers : WriteCall(c)
    \/ \E c \in callers : WriteReturn(c)
    \/ \E c \in callers : ControlCall(c)
    \/ \E c \in callers : ControlReturn(c)
    \/ \E c \in callers : Finish(c)

Spec == Init /\ [][Next]_vars

\* a Client over an implementation of Transport whose negotiate returned Ok
InitMock ==
    /\ callers = {1}
    /\ target = [area |-> AreaMerker, db |-> 0, start |-> 0, amount |-> 1]
    /\ client = "ready"
    /\ opts = [OptionsNew EXCEPT !.pdu_length = PDU_SIZE_REQUESTED]
    /\ lock = 0
    /\ inbuf = <<>>
    /\ peerq = <<>>
    /\ mem = <<>>
    /\ snd = [c \in Callers |-> IdleSend]
    /\ job = [c \in Callers |-> IdleJob]
    /\ hshake = <<>>
    /\ peerFrame = <<>>
    /\ mon = [outstanding |-> 0, failed |-> FALSE]
    /\ ops = 0
    /\ faults = 0
    /\ field = NoField

NextMock ==
    \/ \E c \in callers : MockSend(c)
    \/ \E c \in callers : SzlCall(c)
    \/ \E c \in callers : SzlReturn(c)
    \/ \E c \in callers : InfoReturn(c)
    \/ \E c \in callers : StatusCall(c)
    \/ \E c \in callers : StatusReturn(c)
    \/ \E c \in callers : Finish(c)

SpecMock == InitMock /\ [][NextMock]_vars

\* Options::new(address, rack, slot, conn_type) for racks, slots and
\* connection types over the range of their types
TsapRacks == {0, 5, 2047, 2048, 65535}

TsapSlots == {0, 5, 31, 65535}

Connections == {ConnectionPG, ConnectionOP, ConnectionBasic}

InitTsap ==
    /\ callers = {1}
    /\ target = [area |-> AreaMerker, db |-> 0, start |-> 0, amount |-> 1]
    /\ client = "none"
    /\ opts \in {[OptionsNew EXCEPT !.rack = r, !.slot = sl, !.conn_type = t] :
                    r \in TsapRacks, sl \in TsapSlots, t \in Connections}
    /\ lock = 0
    /\ inbuf = <<>>
    /\ peerq = <<>>
    /\ mem = <<>>
    /\ snd = [c \in Callers |-> IdleSend]
    /\ job = [c \in Callers |-> IdleJob]
    /\ hshake = <<>>
    /\ peerFrame = <<>>
    /\ mon = [outstanding |-> 0, failed |-> FALSE]
    /\ ops = 0
    /\ faults = 0
    /\ field = NoField

\* the handshake up to the connection request on the wire
NextTsap ==
    \/ \E c \in callers : NewClient(c)
    \/ \E c \in callers : SendLock(c)
    \/ \E c \in callers : SendWrite(c)

SpecTsap == InitTsap /\ [][NextTsap]_vars

\* a Bool made, set and encoded; no client takes part
InitBool ==
    /\ callers = {}
    /\ target = [area |-> AreaDataBausteine, db |-> 888, start |-> 0, amount |-> 1]
    /\ client = "none"
    /\ opts = OptionsNew
    /\ lock = 0
    /\ inbuf = <<>>
    /\ peerq = <<>>
    /\ mem = <<>>
    /\ snd = [c \in Callers |-> IdleSend]
    /\ job = [c \in Callers |-> IdleJob]
    /\ hshake = <<>>
    /\ peerFrame = <<>>
    /\ mon = [outstanding |-> 0, failed |-> FALSE]
    /\ ops = 0
    /\ faults = 0
    /\ field = NoField

NextBool == BoolNew \/ BoolSetValue \/ BoolToBytes

SpecBool == InitBool /\ [][NextBool]_vars

\* a Word or a Float made, set and encoded
NextNum == NumNew \/ NumSetValue \/ NumToBytes

SpecNum == InitBool /\ [][NextNum]_vars

\* read and write of a Client over an implementation of Transport
InitRW ==
    /\ callers = {1}
    /\ target = [area |-> AreaMerker, db |-> 0, start |-> 0, amount |-> 1]
    /\ client = "ready"
    /\ opts \in {[OptionsNew EXCEPT !.pdu_length = p] : p \in RwPdus}
    /\ lock = 0
    /\ inbuf = <<>>
    /\ peerq = <<>>
    /\ mem = <<>>
    /\ snd = [c \in Callers |-> IdleSend]
    /\ job = [c \in Callers |-> IdleJob]
    /\ hshake = <<>>
    /\ peerFrame = <<>>
    /\ mon = [outstanding |-> 0, failed |-> FALSE]
    /\ ops = 0
    /\ faults = 0
    /\ field = NoField

NextRW ==
    \/ \E c \in callers : MockSend(c)
    \/ \E c \in callers : RwReadCall(c)
    \/ \E c \in callers : RwWriteCall(c)
    \/ \E c \in callers : ReadReturn(c)
    \/ \E c \in callers : WriteReturn(c)
    \/ \E c \in callers : Finish(c)

SpecRW == InitRW /\ [][NextRW]_vars

\* every caller shares the one client
InitConc == InitWith(Callers, {[area |-> AreaMerker, db |-> 0, start |-> 0, amount |-> 1]})

\* the callers run the handshake and the CPU control operations
NextConc ==
    \/ PeerRespond
    \/ PeerSilent
    \/ \E c \in callers : SendLock(c)
    \/ \E c \in callers : SendWrite(c)
    \/ \E c \in callers : SendWriteShort(c)
    \/ \E c \in callers : SendWriteFails(c)
    \/ \E c \in callers : SendReadHeader(c)
    \/ \E c \in callers : SendReadKeepalive(c)
    \/ \E c \in callers : SendReadCotp(c)
    \/ \E c \in callers : SendReadPayload(c)
    \/ \E c \in callers : SendReadTimeout(c)
    \/ \E c \in callers : NewClient(c)
    \/ \E c \in callers : IsoConnectReturn(c)
    \/ \E c \in callers : NegotiateReturn(c)
    \/ \E c \in callers : ControlCall(c)
    \/ \E c \in callers : ControlReturn(c)
    \/ \E c \in callers : Finish(c)

SpecConc == InitConc /\ [][NextConc]_vars


(***************************************************************************)
(* Properties of read and write jobs.                                      *)
(***************************************************************************)
CeilDiv(n, d) == (n + d - 1) \div d

\* the bytes the PLC holds for the target range are the bytes write was given
Stored ==
    \A i \in 0..(target.amount - 1) :
        LET key == <<target.area, target.db, target.start + i>>
        IN  key \in DOMAIN mem /\ mem[key] = WriteBuffer(target.amount)[i + 1]

\* C1: with the negotiated PDU length above 18, a read whose chunk requests
\* are all answered by a success response carrying the requested payload
\* returns Ok, and the first N bytes of the caller's buffer are the
\* concatenation, in order, of the payloads response[25 .. 25 + size] of
\* those responses.
C1_ReadDeliversEveryByte ==
    \A c \in callers :
        (job[c].op = "read" /\ opts.pdu_length > 18)
        => /\ (faults = 0 => job[c].pc # "panic")
           /\ (faults = 0 /\ job[c].pc = "done" => job[c].result.ok)
           /\ (job[c].pc = "done" /\ job[c].result.ok
               => Slice(job[c].buffer, 0, job[c].amount) = job[c].payload)

\* C2: with the PDU length at least 25 and a peer that stores what it is
\* written and serves reads from it, a write of a buffer returns Ok and the
\* read of the same range after it returns Ok with a buffer equal to the one
\* written.
C2_WriteReadRoundTrip ==
    \A c \in callers :
        (opts.pdu_length >= 25 /\ faults = 0)
        => /\ (job[c].op = "write"
               => job[c].pc # "panic" /\ (job[c].pc = "done" => job[c].result.ok /\ Stored))
           /\ (job[c].op = "read" /\ Stored /\ job[c].pc \in {"done", "panic"}
               => /\ job[c].pc = "done"
                  /\ job[c].result.ok
                  /\ job[c].buffer = WriteBuffer(job[c].amount))

\* the element counts of the requests of a read of n elements, d to a chunk:
\* d for every chunk but the last, the remainder for the last
ChunkSizesAsClaimed(sizes, n, d) ==
    \E cnt \in 1..n :
        /\ cnt * d >= n
        /\ (cnt - 1) * d < n
        /\ Len(sizes) <= cnt
        /\ \A i \in 1..Len(sizes) : sizes[i] = IF i < cnt THEN d ELSE n - (cnt - 1) * d

\* C3 as stated: a read of N bytes sends ceil(N / (P - 18)) request PDUs for
\* every negotiated PDU length P, each but the last asking for P - 18 bytes
\* and the last for the remainder.
C3_ChunkCountAnyPdu ==
    \A c \in callers :
        job[c].op = "read" /\ job[c].nsent > 0
        => /\ ChunkSizesAsClaimed(job[c].sizes, job[c].amount, opts.pdu_length - 18)
           /\ (job[c].pc = "done" /\ job[c].result.ok
               => Len(job[c].sizes) = CeilDiv(job[c].amount, opts.pdu_length - 18))

\* C3: with the negotiated PDU length P above 18, a read of N bytes sends
\* ceil(N / (P - 18)) request PDUs when every chunk is accepted (and no more
\* than that otherwise); every chunk but the last asks for P - 18 bytes and
\* the last asks for the remainder.
C3_ChunkCount ==
    \A c \in callers :
        job[c].op = "read" /\ job[c].nsent > 0 /\ opts.pdu_length > 18
        => /\ ChunkSizesAsClaimed(job[c].sizes, job[c].amount, opts.pdu_length - 18)
           /\ (job[c].pc = "done" /\ job[c].result.ok
               => Len(job[c].sizes) = CeilDiv(job[c].amount, opts.pdu_length - 18))

\* a read of two chunks or more has returned Ok, its last chunk the remainder
C3_Witness ==
    \E c \in callers :
        /\ job[c].op = "read" /\ job[c].pc = "done" /\ job[c].result.ok
        /\ opts.pdu_length > 18
        /\ Len(job[c].sizes) >= 2
        /\ job[c].sizes[Len(job[c].sizes)] < opts.pdu_length - 18

(***************************************************************************)
(* Properties of the exchanges.                                            *)
(***************************************************************************)
InExchange(c) == snd[c].pc \in {"write", "hdr", "keepalive", "cotp", "payload"}

RequestWritten(c) == snd[c].pc \in {"hdr", "keepalive", "cotp", "payload"}

\* C4: requests and responses alternate strictly on the connection: a
\* request is written only when every request before it has been answered
\* by a response returned to the caller, so two requests are never
\* outstanding.
C4_StrictAlternation == mon.outstanding <= 1

\* C5: the exchanges of the callers of one client exclude each other: a
\* caller writes a request or reads response bytes only while it holds the
\* guard of the stream, so at most one caller is inside an exchange.
C5_MutualExclusion ==
    /\ \A c \in callers : InExchange(c) => lock = c
    /\ \A c, d \in callers : InExchange(c) /\ InExchange(d) => c = d

\* one caller reads its response while another waits for the guard
C5_Witness ==
    \E c, d \in callers :
        /\ c # d
        /\ snd[c].pc = "cotp"
        /\ snd[d].pc = "lock"
        /\ client = "ready"

\* the requests written so far while no client was ready
HandshakeRequests == {i \in 1..Len(hshake) : hshake[i].t = "req"}

\* C6: the client is ready only after the connection request telegram was
\* answered by a frame with 0xD0 at byte [5] and, after that, the PDU
\* negotiation was answered by an accepted response; when the answer to the
\* connection request has another byte [5] the construction fails without a
\* negotiation; before the client is ready no other request is written.
C6_HandshakeOrder ==
    /\ client = "ready"
       => /\ Len(hshake) = 4
          /\ hshake[1] = Event("req", IsoConnectMsg(opts))
          /\ hshake[2].t = "resp"
          /\ At(hshake[2].bytes, 5) = CONFIRM_CONNECTION
          /\ hshake[3] = Event("req", NegotiationMsg)
          /\ hshake[4].t = "resp"
          /\ Len(hshake[4].bytes) = 27
          /\ read_u16(hshake[4].bytes, 25) = opts.pdu_length
    /\ (Len(hshake) >= 2 /\ (hshake[2].t = "err" \/ At(hshake[2].bytes, 5) # CONFIRM_CONNECTION))
       => Len(hshake) = 2 /\ client # "ready"
    /\ client # "ready"
       => /\ \A i \in HandshakeRequests :
                 /\ hshake[i].bytes \in {IsoConnectMsg(opts), NegotiationMsg}
                 /\ hshake[i].bytes = NegotiationMsg => i = 3
          /\ \A c \in callers : job[c].op \in {"none", "new"}

\* the handshake has succeeded
C6_Witness ==
    /\ client = "ready"
    /\ Len(hshake) = 4
    /\ At(hshake[2].bytes, 5) = CONFIRM_CONNECTION

\* C7: after a successful handshake the PDU length is within [16, 960].
C7_PduLengthRange ==
    client = "ready" => opts.pdu_length >= MIN_PDU_SIZE /\ opts.pdu_length <= 960

\* the caller takes what its send has returned
TakesReturn(c) == snd[c].pc = "ret" /\ snd'[c] # snd[c]

\* C8: nothing is retried.  When an exchange of a read or write fails, or its
\* response is rejected, the operation returns an error at once, the error
\* of the exchange where it failed, and sends nothing more; a failed exchange
\* of the handshake fails the construction; so every request is handed to
\* the transport once, the count of requests is at most one more than the
\* count of accepted responses.
C8_NothingRetried ==
    [][\A c \in callers :
          /\ (TakesReturn(c) /\ job[c].op \in {"read", "write"}
                /\ ~Accepted(job[c].op, snd[c].ret))
             => /\ job'[c].pc = "done"
                /\ ~job'[c].result.ok
                /\ (~snd[c].ret.ok => job'[c].result = snd[c].ret)
                /\ snd'[c] = IdleSend
                /\ job'[c].nsent = job[c].nsent
          /\ (TakesReturn(c) /\ job[c].op = "new" /\ ~snd[c].ret.ok)
             => /\ job'[c].pc = "done"
                /\ ~job'[c].result.ok
                /\ client' = "failed"
                /\ snd'[c] = IdleSend
          /\ job'[c].op \in {"read", "write"} => job'[c].nsent <= job'[c].acked + 1
      ]_vars

\* a read or write has returned the error of its second exchange
C8_Witness ==
    \E c \in callers :
        /\ job[c].op \in {"read", "write"}
        /\ job[c].pc = "done"
        /\ ~job[c].result.ok
        /\ job[c].nsent = 2
        /\ job[c].acked = 1

\* C9: an I/O or framing error is terminal for the connection: once an
\* exchange has failed with one, no later request is written to the stream
\* and no response bytes are read from it.
C9_ErrorIsTerminal ==
    mon.failed => \A c \in callers : ~RequestWritten(c)

\* the TPKT length field of a frame
TpktLength(f) == read_u16(f, 2)

LegalLength(n) == n >= MIN_PDU_SIZE /\ n <= PDU_SIZE_REQUESTED + ISO_HEADER_SIZE

\* C10: for the frame the peer has sent with TPKT length L: with
\* 16 <= L <= 487 the exchange returns exactly L bytes, the bytes of that
\* frame; with another L the exchange fails with the PDU length error
\* carrying L.
C10_TpktFraming ==
    \A c \in callers :
        (snd[c].pc = "ret" /\ snd[c].ret.k \in {"Ok", "PduLength"} /\ peerFrame # <<>>)
        => IF LegalLength(TpktLength(peerFrame))
           THEN snd[c].ret.ok /\ snd[c].ret.resp = peerFrame
           ELSE snd[c].ret = RetErr("PduLength", TpktLength(peerFrame))

\* C11: partial socket transfers are completed.  When a read of the socket
\* has returned fewer bytes than asked for, an exchange that returns Ok
\* returns exactly the frame the peer sent; and the request that has reached
\* the peer is the whole request handed to send.
C11_PartialTransfersCompleted ==
    \A c \in callers :
        /\ (snd[c].pc = "ret" /\ snd[c].partial /\ snd[c].ret.ok)
           => snd[c].ret.resp = peerFrame
        /\ (snd[c].pc = "hdr" /\ peerq # <<>>) => peerq[Len(peerq)] = snd[c].request

\* C12: frames of TPKT length 7 are transparent.  An exchange that has read
\* such frames before the response of the peer drops them all and returns
\* exactly that response, and last_pdu_type is byte [5] of that response.
C12_KeepaliveTransparent ==
    \A c \in callers :
        (snd[c].pc = "ret" /\ snd[c].skipped > 0 /\ snd[c].ret.k # "Io"
            /\ LegalLength(TpktLength(peerFrame)))
        => /\ snd[c].ret.ok
           /\ snd[c].ret.resp = peerFrame
           /\ opts.last_pdu_type = At(peerFrame, 5)

(***************************************************************************)
(* Properties of the operations over any Transport.                        *)
(***************************************************************************)
\* C13: read_szl returns the whole list: the data it returns are the
\* concatenation, in order, of the payload [41..41+data_len] of the first
\* response and of the bytes from [41] of every continuation response.
C13_SzlWholeList ==
    \A c \in callers :
        (job[c].op = "read_szl" /\ job[c].pc = "done" /\ job[c].result.ok)
        => job[c].szl.data = job[c].payload

(***************************************************************************)
(* Properties of the CPU control commands.                                 *)
(***************************************************************************)
\* a control command takes what its one send has returned
ControlTakes(c) ==
    /\ job[c].op \in ControlOps
    /\ job[c].pc = "send"
    /\ snd[c].pc = "ret"
    /\ job'[c] # job[c]

ExpectedOpcode(op) == IF op = "stop" THEN PDU_STOP ELSE PDU_START

AlreadyMarker(op) == IF op = "stop" THEN PDU_ALREADY_STOPPED ELSE PDU_ALREADY_STARTED

CannotCode(op) == IF op = "stop" THEN CLI_CANNOT_STOP_PLC ELSE CLI_CANNOT_START_PLC

AlreadyCode(op) == IF op = "stop" THEN CLI_ALREADY_STOP ELSE CLI_ALREADY_RUN

FixedTelegram(op) ==
    CASE op = "start" -> COLD_START_TELEGRAM
      [] op = "restart" -> WARM_START_TELEGRAM
      [] op = "stop" -> STOP_TELEGRAM

\* C14: start, restart and stop send their fixed telegram unchanged in one
\* exchange and map its response (one that passes the length check): byte
\* [17] other than the expected opcode gives Response(cannot start / cannot
\* stop); else byte [18] equal to the already-in-that-state marker gives
\* Response(already run / already stop); else Ok.  The opcode check comes
\* first.
C14_ControlMapping ==
    [][\A c \in callers :
          ControlTakes(c)
          => /\ snd[c].request = FixedTelegram(job[c].op)
             /\ job[c].nsent = 1
             /\ job'[c].pc = "done"
             /\ snd'[c] = IdleSend
             /\ (snd[c].ret.ok /\ Len(snd[c].ret.resp) >= TELEGRAM_MIN_RESPONSE)
                => job'[c].result =
                     IF At(snd[c].ret.resp, 17) # ExpectedOpcode(job[c].op)
                     THEN RetErr("Response", CannotCode(job[c].op))
                     ELSE IF At(snd[c].ret.resp, 18) = AlreadyMarker(job[c].op)
                     THEN RetErr("Response", AlreadyCode(job[c].op))
                     ELSE RetOk(<<>>)
      ]_vars

\* a stop has returned that the CPU is stopped already
C14_Witness ==
    \E c \in callers :
        /\ job[c].op = "stop"
        /\ job[c].pc = "done"
        /\ job[c].result = RetErr("Response", CLI_ALREADY_STOP)

\* C15 as stated: a control command rejects every response of length 19 or
\* less with the invalid-PDU error, whatever its bytes [17] and [18].
C15_ControlAboveMinLength ==
    [][\A c \in callers :
          (ControlTakes(c) /\ snd[c].ret.ok /\ Len(snd[c].ret.resp) <= TELEGRAM_MIN_RESPONSE)
          => job'[c].result = RetErr("Response", ISO_INVALID_PDU)
      ]_vars

\* C15: a control command accepts a response only if its length is at least
\* TELEGRAM_MIN_RESPONSE (19): every response of length below 19 is rejected
\* with the invalid-PDU error, whatever its bytes, and a response of 19
\* bytes or more is judged by its bytes [17] and [18].
C15_ControlMinLength ==
    [][\A c \in callers :
          (ControlTakes(c) /\ snd[c].ret.ok)
          => (job'[c].result = RetErr("Response", ISO_INVALID_PDU)
              <=> Len(snd[c].ret.resp) < TELEGRAM_MIN_RESPONSE)
      ]_vars

\* a control command has got a response of exactly TELEGRAM_MIN_RESPONSE bytes
C15_Witness ==
    \E c \in callers :
        /\ job[c].op \in ControlOps
        /\ snd[c].pc = "ret"
        /\ snd[c].ret.ok
        /\ Len(snd[c].ret.resp) = TELEGRAM_MIN_RESPONSE

\* C16: plc_status makes one exchange and maps its response: a response
\* shorter than 45 bytes gives the invalid-PDU error; otherwise a non-zero
\* big-endian word at [27..29] gives a CPU error carrying that word; otherwise
\* byte [44] gives Unknown for 0, Stop for 4, Run for 8 and
\* InvalidCpuStatus(byte) for any other byte.
StatusTakes(c) ==
    /\ job[c].op = "plc_status"
    /\ job[c].pc = "send"
    /\ snd[c].pc = "ret"
    /\ job'[c].pc = "done"

StatusExpected(resp) ==
    LET word == resp[28] * 256 + resp[29]
        byte == resp[45]
    IN  IF Len(resp) < 45 THEN <<"Response", ISO_INVALID_PDU>>
        ELSE IF word # 0 THEN <<"CPU", word>>
        ELSE IF byte = 0 THEN <<"Unknown", 0>>
        ELSE IF byte = 4 THEN <<"Stop", 0>>
        ELSE IF byte = 8 THEN <<"Run", 0>>
        ELSE <<"InvalidCpuStatus", byte>>

C16_PlcStatusMapping ==
    [][\A c \in callers :
          (StatusTakes(c) /\ snd[c].ret.ok)
          => /\ <<job'[c].result.k, job'[c].result.v>> = StatusExpected(snd[c].ret.resp)
             /\ job'[c].result.ok = (job'[c].result.k \in {"Unknown", "Stop", "Run"})
             /\ job'[c].nsent = 1
             /\ snd'[c].pc = "idle"]_vars

C16_Witness ==
    \E c \in callers :
        /\ job[c].op = "plc_status"
        /\ job[c].pc = "done"
        /\ job[c].result = RetErr("InvalidCpuStatus", 255)
        /\ job[c].nsent = 1


\* C17: for every rack and slot of 0..65535 and every connection type (PG 1,
\* OP 2, Basic 3) the handshake does not fail in computing
\* remote_tsap = ((type << 8) + rack * 0x20 + slot) mod 2^16; the connection
\* request carries its high and low byte at [20] and [21] and the local TSAP
\* 0x0100 as 1, 0 at [16] and [17].
RemoteTsap(o) == (o.conn_type * 256 + o.rack * 32 + o.slot) % 65536

C17_TsapDerivation ==
    \A c \in callers :
        job[c].op = "new"
        => /\ job[c].pc # "panic"
           /\ snd[c].request # <<>>
              => /\ snd[c].request[21] = RemoteTsap(opts) \div 256
                 /\ snd[c].request[22] = RemoteTsap(opts) % 256
                 /\ snd[c].request[17] = 1
                 /\ snd[c].request[18] = 0
           /\ peerq # <<>> => peerq[Len(peerq)] = snd[c].request


\* C18: the negotiation request asks for 480 at bytes [23..25]; a response
\* is accepted only if it is 27 bytes long with bytes [17] and [18] zero, and
\* then pdu_length becomes the big-endian word at [25..27]; if that word is 0,
\* or the length is another, or byte [17] or [18] is not zero, the handshake
\* fails with the negotiating-PDU error and no Client is created.
NegotiateTakes(c) ==
    /\ job[c].pc = "negotiate_pdu_length"
    /\ snd[c].pc = "ret"
    /\ job'[c].pc = "done"

WellFormedAnswer(resp) == Len(resp) = 27 /\ resp[18] = 0 /\ resp[19] = 0

C18_Negotiation ==
    [][\A c \in callers :
          (NegotiateTakes(c) /\ snd[c].ret.ok)
          => LET resp == snd[c].ret.resp
             IN  /\ Len(snd[c].request) = 25
                 /\ snd[c].request[24] * 256 + snd[c].request[25] = 480
                 /\ WellFormedAnswer(resp) => opts'.pdu_length = resp[26] * 256 + resp[27]
                 /\ IF WellFormedAnswer(resp) /\ resp[26] * 256 + resp[27] # 0
                    THEN job'[c].result.ok /\ client' = "ready"
                    ELSE /\ job'[c].result = RetErr("Response", CLI_NEGOTIATING_PDU)
                         /\ client' = "failed"]_vars

C18_Witness ==
    \E c \in callers :
        /\ job[c].op = "new"
        /\ job[c].pc = "done"
        /\ job[c].result = RetErr("Response", CLI_NEGOTIATING_PDU)
        /\ client = "failed"
        /\ WellFormedAnswer(peerFrame)
        /\ opts.pdu_length = 0


\* C19: for every byte b and bit position p of 0..7, a Bool made from [b]
\* at an offset whose bit digit is p encodes to [b] as long as set_value was
\* not called; after set_value(v) bit p of the encoded byte is v and the other
\* seven bits are those of b, whatever calls came before; calling set_value
\* with the same value again changes nothing.
Bit(b, q) == (b \div Pow2(q)) % 2

BitDigit == field.tenths % 10

C19_BoolRoundTrip ==
    (field.st = "ok" /\ BitDigit <= 7)
    => /\ (field.nset = 0 /\ field.out # <<>>) => field.out = field.bytes
       /\ (field.nset > 0 /\ field.out # <<>>)
          => /\ Len(field.out) = 1
             /\ Bit(field.out[1], BitDigit) = (IF field.value THEN 1 ELSE 0)
             /\ \A q \in (0..7) \ {BitDigit} : Bit(field.out[1], q) = Bit(field.bytes[1], q)
       /\ field.nset > 0
          => /\ set_value(field, field.value).byte = field.byte
             /\ set_value(field, field.value).value = field.value

\* C20: Bool::new fails with a conversion error when the byte vector is not
\* exactly one byte long or the bit position, the first decimal digit of the
\* offset, is above 7; it succeeds for every one-byte vector with a bit
\* position of 0..7, and the value it decodes is bit p of the byte.
C20_BoolNewValidates ==
    field.st # "none"
    => /\ (Len(field.bytes) # 1 \/ BitDigit > 7) => field.st = "TryFrom"
       /\ (Len(field.bytes) = 1 /\ BitDigit <= 7)
          => /\ field.st = "ok"
             /\ field.nset = 0 => field.value = (Bit(field.bytes[1], BitDigit) = 1)


\* C21: a Word made from the big-endian bytes of a 16-bit value v has the
\* value v and encodes to the same two bytes; after set_value(w) it encodes
\* to the big-endian bytes of w; a Float encodes to the four bytes it was made
\* from; Word::new and Float::new reject a buffer that is not 2 resp. 4 bytes
\* long and an offset whose bit digit is not 0.
NumSize == IF field.ty = "Word" THEN 2 ELSE 4

C21_WordFloatRoundTrip ==
    (field.st # "none" /\ field.ty \in {"Word", "Float"})
    => /\ (Len(field.bytes) # NumSize \/ BitDigit # 0) => field.st = "TryFrom"
       /\ (Len(field.bytes) = NumSize /\ BitDigit = 0)
          => /\ field.st = "ok"
             /\ (field.nset = 0 /\ field.ty = "Word")
                => field.value = field.bytes[1] * 256 + field.bytes[2]
             /\ (field.nset = 0 /\ field.out # <<>>) => field.out = field.bytes
             /\ (field.ty = "Word" /\ field.out # <<>>)
                => field.out = <<field.value \div 256, field.value % 256>>
             /\ (field.ty = "Float" /\ field.out # <<>>) => read_f32(field.out) = field.value


\* C22: a response to the first SZL request or to a continuation request is
\* accepted only if it is at least 42 bytes long, the big-endian word at
\* [27..29] is 0 and byte [29] is 0xFF; a response that breaks one of the two
\* byte conditions is rejected with the CPU error invalid-PLC-answer.
SzlTakes(c) ==
    /\ job[c].op = "read_szl"
    /\ job[c].pc \in {"first", "send"}
    /\ snd[c].pc = "ret"
    /\ snd[c].ret.ok
    /\ job'[c] # job[c]

SzlBytesGood(resp) == resp[28] * 256 + resp[29] = 0 /\ resp[30] = 255

SzlRejected(c) == job'[c].pc = "done" /\ ~job'[c].result.ok

C22_SzlValidation ==
    [][\A c \in callers :
          SzlTakes(c)
          => LET resp == snd[c].ret.resp
             IN  /\ ~SzlRejected(c) => (Len(resp) >= 42 /\ SzlBytesGood(resp))
                 /\ (Len(resp) >= 42 /\ ~SzlBytesGood(resp))
                    => job'[c].result = RetErr("CPU", CLI_INVALID_PLC_ANSWER)]_vars


\* C23: the header read_szl returns holds the big-endian words at [37..39]
\* and [39..41] of the first response (header length, number of data
\* records), and the continuation exchanges leave both as they are.
SzlGoesOn(c) == SzlTakes(c) /\ job'[c].pc # "panic" /\ ~SzlRejected(c)

C23_SzlHeader ==
    [][\A c \in callers :
          SzlGoesOn(c)
          => LET resp == snd[c].ret.resp
             IN  IF job[c].pc = "first"
                 THEN /\ job'[c].szl.length_header = resp[38] * 256 + resp[39]
                      /\ job'[c].szl.number_of_data_record = resp[40] * 256 + resp[41]
                 ELSE /\ job'[c].szl.length_header = job[c].szl.length_header
                      /\ job'[c].szl.number_of_data_record
                           = job[c].szl.number_of_data_record]_vars


\* C24: the first SZL request carries sequence 1 at [11..13], the id at
\* [29..31] and the index at [31..33]; after an accepted response a
\* continuation request is sent if and only if byte [26] of that response is
\* not 0, and it is the SZL-next telegram with byte [24] of that response at
\* [24]; so each not-done response adds one exchange to the first, and
\* read_szl returns at the first response whose byte [26] is 0.
SzlStarts(c) == job[c].pc = "idle" /\ job'[c].op = "read_szl" /\ job'[c].pc = "first"

C24_SzlContinuation ==
    [][\A c \in callers :
          /\ SzlStarts(c)
             => \E q \in SzlQueries :
                   /\ job'[c].nsent = 1
                   /\ snd'[c].pc = "lock"
                   /\ snd'[c].request =
                        [k \in 1..33 |->
                            CASE k = 12 -> 0
                              [] k = 13 -> 1
                              [] k = 30 -> q[1] \div 256
                              [] k = 31 -> q[1] % 256
                              [] k = 32 -> q[2] \div 256
                              [] k = 33 -> q[2] % 256
                              [] OTHER -> SZL_FIRST_TELEGRAM[k]]
          /\ SzlGoesOn(c)
             => LET resp == snd[c].ret.resp
                IN  IF resp[27] # 0
                    THEN /\ job'[c].pc = "send"
                         /\ job'[c].nsent = job[c].nsent + 1
                         /\ snd'[c].pc = "lock"
                         /\ snd'[c].request =
                              [k \in 1..33 |->
                                  IF k = 25 THEN resp[25] ELSE SZL_NEXT_TELEGRAM[k]]
                    ELSE /\ job'[c].pc = "done"
                         /\ job'[c].result.ok
                         /\ job'[c].nsent = job[c].nsent
                         /\ snd'[c].pc = "idle"]_vars

C24_Witness ==
    \E c \in callers :
        /\ job[c].op = "read_szl"
        /\ job[c].pc = "done"
        /\ job[c].result.ok
        /\ job[c].nsent = 3
        /\ job[c].szl.seq_in = 2


\* C25: every read chunk request is 31 bytes long and is the head of
\* READ_WRITE_TELEGRAM but for: [23..25] the chunk's element count, [25..27]
\* the db number, [27] the area code, [22] the word-length code for Bit,
\* Counter and Timer only, [28..31] the low 24 bits of the address, big-endian,
\* the address being start for Bit, Counter and Timer and start << 3 otherwise.
ReadSends(c) ==
    /\ job'[c].op = "read"
    /\ job'[c].pc = "send"
    /\ snd'[c].pc = "lock"
    /\ snd[c].pc # "lock"

BitCounterTimer(wl) == wl = 1 \/ wl = 28 \/ wl = 29

ChunkAddress(j) == (IF BitCounterTimer(j.word_len) THEN j.start ELSE j.start * 8) % 16777216

C25_ReadRequestEncoding ==
    [][\A c \in callers :
          ReadSends(c)
          => LET j   == job'[c]
                 req == snd'[c].request
             IN  /\ Len(req) = 31
                 /\ \A k \in 0..30 :
                      req[k + 1] =
                        CASE k = 22 /\ BitCounterTimer(j.word_len) -> j.word_len
                          [] k = 23 -> (j.num_elements \div 256) % 256
                          [] k = 24 -> j.num_elements % 256
                          [] k = 25 -> (j.db_number \div 256) % 256
                          [] k = 26 -> j.db_number % 256
                          [] k = 27 -> j.area
                          [] k = 28 -> ChunkAddress(j) \div 65536
                          [] k = 29 -> (ChunkAddress(j) \div 256) % 256
                          [] k = 30 -> ChunkAddress(j) % 256
                          [] OTHER -> READ_WRITE_TELEGRAM[k + 1]]_vars

C25_Witness ==
    \E c \in callers :
        /\ job[c].op = "read"
        /\ job[c].db_number = 888
        /\ job[c].start = 8
        /\ job[c].num_elements = 1
        /\ snd[c].pc = "lock"
        /\ Len(snd[c].request) = 31
        /\ SubSeq(snd[c].request, 23, 31) = <<2, 0, 1, 3, 120, 132, 0, 0, 64>>


\* C26: the chunks of a byte-oriented read or write of N bytes from start
\* cover the range in ascending order without gap or overlap: the first
\* chunk addresses byte start, each later chunk the byte after the last byte
\* of the chunk before, and the chunk sizes of a finished job sum to N; after
\* a chunk offset has grown by its size, start by its elements times the
\* byte size, and the remaining count has shrunk by its elements.
RECURSIVE SumSeq(_)
SumSeq(q) == IF q = <<>> THEN 0 ELSE Head(q) + SumSeq(Tail(q))

ByteJob(j) == j.op \in {"read", "write"} /\ j.word_len = 2 /\ j.word_size = 1

ByteAddressOf(req) == ((req[29] * 65536 + req[30] * 256 + req[31]) \div 8)

CountOf(req) == req[24] * 256 + req[25]

JobStarts(c) == job[c].pc = "idle" /\ ByteJob(job'[c]) /\ job'[c].pc = "send"

NextChunk(c) ==
    /\ ByteJob(job[c])
    /\ job[c].pc = "send"
    /\ snd[c].pc = "ret"
    /\ job'[c].pc = "send"

JobEndsOk(c) ==
    /\ ByteJob(job[c])
    /\ job[c].pc = "send"
    /\ job'[c].pc = "done"
    /\ job'[c].result.ok

C26_ChunksContiguous ==
    [][\A c \in callers :
          /\ JobStarts(c)
             => /\ ByteAddressOf(snd'[c].request) = job'[c].start
                /\ job'[c].offset = 0
                /\ job'[c].tot_elements = job'[c].amount
                /\ CountOf(snd'[c].request) = job'[c].size
                /\ job'[c].size > 0
          /\ NextChunk(c)
             => /\ job'[c].offset = job[c].offset + job[c].size
                /\ job'[c].start = job[c].start + job[c].num_elements * 1
                /\ job'[c].tot_elements = job[c].tot_elements - job[c].num_elements
                /\ ByteAddressOf(snd'[c].request)
                     = ByteAddressOf(snd[c].request) + CountOf(snd[c].request)
                /\ CountOf(snd'[c].request) = job'[c].size
                /\ job'[c].size > 0
          /\ JobEndsOk(c)
             => /\ job[c].tot_elements = job[c].num_elements
                /\ SumSeq(job'[c].sizes) = job'[c].amount]_vars

C26_Witness ==
    \E c \in callers :
        /\ job[c].op = "write"
        /\ job[c].pc = "done"
        /\ job[c].result.ok
        /\ job[c].sizes = <<2, 2, 1>>
        /\ job[c].start = 65537 + 5


\* C27: a read chunk response shorter than 25 bytes fails the job with the
\* invalid-data-size error, one of 25 bytes or more whose byte [21] is not
\* 0xFF fails it with the CPU error whose code is that byte, and in both
\* cases the caller's buffer is left as it was.
ReadTakes(c) ==
    /\ job[c].op = "read"
    /\ job[c].pc = "send"
    /\ snd[c].pc = "ret"
    /\ snd[c].ret.ok

C27_ReadResponseValidation ==
    [][\A c \in callers :
          ReadTakes(c) =>
              LET resp == snd[c].ret.resp
              IN  /\ Len(resp) < 25
                     => /\ job'[c].pc = "done"
                        /\ job'[c].result = RetErr("Response", ISO_INVALID_DATA_SIZE)
                        /\ job'[c].buffer = job[c].buffer
                  /\ Len(resp) >= 25 /\ resp[22] # 255
                     => /\ job'[c].pc = "done"
                        /\ job'[c].result = RetErr("CPU", resp[22])
                        /\ job'[c].buffer = job[c].buffer]_vars

C27_Witness ==
    \E c \in callers :
        /\ job[c].op = "read"
        /\ job[c].pc = "done"
        /\ job[c].result = RetErr("CPU", 5)
        /\ job[c].nsent = 2
        /\ \E k \in DOMAIN job[c].buffer : job[c].buffer[k] # 0


\* C28: in every write chunk request the be_u16 at [15..17] is the chunk's
\* byte size plus 4, and the be_u16 at [33..35] is the byte size for
\* Bit/Counter/Timer and the byte size times 8 for every other word length.
WriteSent(c) == job[c].op = "write" /\ job[c].pc = "send"

U16At(req, i) == req[i + 1] * 256 + req[i + 2]

BitLength(j) == IF BitCounterTimer(j.word_len) THEN j.size ELSE j.size * 8

C28_WriteLengthFields ==
    \A c \in callers :
        WriteSent(c) =>
            /\ U16At(snd[c].request, 15) = job[c].size + 4
            /\ U16At(snd[c].request, 33) = BitLength(job[c])

\* C28 as stated: [15..17] carries size for Bit/Counter/Timer and size x 8
\* otherwise, and [33..35] carries the same value.
C28_Original ==
    \A c \in callers :
        WriteSent(c) =>
            /\ U16At(snd[c].request, 15) = BitLength(job[c])
            /\ U16At(snd[c].request, 33) = U16At(snd[c].request, 15)

C28_Witness ==
    \E c \in callers :
        /\ WriteSent(c)
        /\ job[c].word_len = 2
        /\ job[c].size = 2
        /\ U16At(snd[c].request, 15) = 6
        /\ U16At(snd[c].request, 33) = 16


\* C29: a byte-oriented write of N bytes over a PDU length P > 35 sends
\* ceil(N / (P - 35)) requests when every one is accepted; each request
\* carries at most P - 35 bytes, is 35 + size bytes long, holds 35 + size as
\* be_u16 at [2..4] and the element count at [23..25], and its bytes from
\* position 35 are buffer[offset..offset+size]; the offsets start at 0, each
\* follows the end of the chunk before and the last chunk ends at N, so the
\* payloads in order make up buffer[0..N].
WritePdu == opts.pdu_length - 35

ByteWrite(j) == j.op = "write" /\ j.word_len = 2 /\ j.word_size = 1

GoodWriteChunk(j, req) ==
    /\ j.size = Min(j.amount - j.offset, WritePdu)
    /\ j.num_elements = j.size
    /\ Len(req) = 35 + j.size
    /\ U16At(req, 2) = 35 + j.size
    /\ U16At(req, 23) = j.num_elements
    /\ SubSeq(req, 36, 35 + j.size) = SubSeq(j.buffer, j.offset + 1, j.offset + j.size)

C29_WriteChunking ==
    [][\A c \in callers :
          WritePdu > 0 =>
              /\ job[c].pc = "idle" /\ ByteWrite(job'[c]) /\ job'[c].pc = "send"
                 => /\ job'[c].offset = 0
                    /\ Len(job'[c].buffer) = job'[c].amount
                    /\ GoodWriteChunk(job'[c], snd'[c].request)
              /\ ByteWrite(job[c]) /\ NextChunk(c)
                 => /\ job'[c].offset = job[c].offset + job[c].size
                    /\ job'[c].buffer = job[c].buffer
                    /\ GoodWriteChunk(job'[c], snd'[c].request)
              /\ ByteWrite(job[c]) /\ JobEndsOk(c)
                 => /\ job[c].offset + job[c].size = job[c].amount
                    /\ job'[c].buffer = job[c].buffer
                    /\ job'[c].nsent = (job[c].amount + WritePdu - 1) \div WritePdu]_vars

C29_Witness ==
    \E c \in callers :
        /\ ByteWrite(job[c])
        /\ job[c].pc = "done"
        /\ job[c].result.ok
        /\ opts.pdu_length = 37
        /\ job[c].amount = 5
        /\ job[c].nsent = 3
        /\ job[c].offset = 5


\* C30: a write chunk is accepted only when its response is exactly 22
\* bytes long with byte [21] = 0xFF: a response of any other length fails
\* the job with the invalid-PDU error, one of 22 bytes with another byte
\* [21] fails it with the CPU error whose code is that byte, and the job
\* moves on to the next chunk, or ends well, only after an accepted response.
WriteTakes(c) ==
    /\ job[c].op = "write"
    /\ job[c].pc = "send"
    /\ snd[c].pc = "ret"
    /\ snd[c].ret.ok

WriteStays(c) ==
    /\ job'[c].offset = job[c].offset
    /\ job'[c].start = job[c].start
    /\ job'[c].tot_elements = job[c].tot_elements
    /\ job'[c].nsent = job[c].nsent

C30_WriteResponseValidation ==
    [][\A c \in callers :
          WriteTakes(c) =>
              LET resp == snd[c].ret.resp
              IN  /\ Len(resp) # 22
                     => /\ job'[c].pc = "done"
                        /\ job'[c].result = RetErr("Response", ISO_INVALID_PDU)
                        /\ WriteStays(c)
                  /\ Len(resp) = 22 /\ resp[22] # 255
                     => /\ job'[c].pc = "done"
                        /\ job'[c].result = RetErr("CPU", resp[22])
                        /\ WriteStays(c)
                  /\ Len(resp) = 22 /\ resp[22] = 255
                     => /\ job'[c].offset = job[c].offset + job[c].size
                        /\ job'[c].tot_elements = job[c].tot_elements - job[c].num_elements
                        /\ job'[c].pc \in {"send", "done"}
                        /\ job'[c].pc = "done" => job'[c].result.ok]_vars

C30_Witness ==
    \E c \in callers :
        /\ job[c].op = "write"
        /\ job[c].pc = "done"
        /\ job[c].result = RetErr("Response", ISO_INVALID_PDU)
        /\ job[c].nsent = 2
        /\ job[c].offset = 2


\* C31: every write chunk request has [17] = 5, the area code at [27], the
\* data block number as be_u16 at [25..27] for DataBausteine and 0, 0 for
\* every other area, the word-length code at [22] for Bit, Counter and Timer
\* only, the low 24 bits of the address at [28..31] as in a read request,
\* [32] = 3 for Bit, 9 for Counter/Timer and 4 otherwise; every other byte
\* below 35 outside [2..4], [15..17], [23..25] and [33..35] is the template's.
LengthField(k) == k \in {2, 3, 15, 16, 23, 24, 33, 34}

C31_WriteHeaderFields ==
    \A c \in callers :
        WriteSent(c) =>
            LET j   == job[c]
                req == snd[c].request
            IN  /\ Len(req) >= 35
                /\ \A k \in (0..34) \ {k \in 0..34 : LengthField(k)} :
                     req[k + 1] =
                       CASE k = 17 -> 5
                         [] k = 22 /\ BitCounterTimer(j.word_len) -> j.word_len
                         [] k = 25 /\ j.area = 132 -> (j.db_number \div 256) % 256
                         [] k = 26 /\ j.area = 132 -> j.db_number % 256
                         [] k = 25 /\ j.area # 132 -> 0
                         [] k = 26 /\ j.area # 132 -> 0
                         [] k = 27 -> j.area
                         [] k = 28 -> ChunkAddress(j) \div 65536
                         [] k = 29 -> (ChunkAddress(j) \div 256) % 256
                         [] k = 30 -> ChunkAddress(j) % 256
                         [] k = 32 -> (IF j.word_len = 1 THEN 3
                                       ELSE IF j.word_len \in {28, 29} THEN 9 ELSE 4)
                         [] OTHER -> READ_WRITE_TELEGRAM[k + 1]

C31_Witness ==
    \E c \in callers :
        /\ WriteSent(c)
        /\ job[c].area = 28
        /\ job[c].db_number = 888
        /\ job[c].start = 8
        /\ SubSeq(snd[c].request, 18, 33) = <<5, 1, 18, 10, 16, 28, 0, 1, 0, 0, 28, 0, 0, 8, 0, 9>>


\* C32: a read or write job works on normalised arguments: in area Counter
\* resp. Timer the word length is Counter resp. Timer whatever was passed;
\* with word length Bit the amount is 1 and exactly one request, of element
\* count 1, is sent; with Byte, Char, Word, Int, DWord, DInt or Real the job
\* is a byte transfer of amount x size_of(word_len) bytes with the Byte code
\* on the wire; with Counter or Timer the element size is 2 and the count is
\* the amount passed.
\* Stated for PDU lengths that leave room for at least one element (above 18
\* for read, above 35 for write).
SizeOf(wl) ==
    CASE wl \in {1, 2, 3} -> 1
      [] wl \in {4, 5, 28, 29} -> 2
      [] wl \in {6, 7, 8} -> 4
      [] OTHER -> 0

ForcedWordLen(j) ==
    IF j.area = 28 THEN 28 ELSE IF j.area = 29 THEN 29 ELSE j.asked.word_len

\* a job on a known word length
KnownJob(j) ==
    /\ j.op \in {"read", "write"}
    /\ j.pc # "idle"
    /\ SizeOf(ForcedWordLen(j)) # 0

\* a job on a known word length over a PDU length that has room for an element
RwJob(j) == KnownJob(j) /\ j.max_elements >= 1

Normalised(c) ==
    LET j  == job[c]
        wl == ForcedWordLen(j)
    IN  /\ wl = 1
           => /\ j.word_len = 1
              /\ j.amount = 1
              /\ j.sizes = <<1>>
        /\ wl \in {28, 29}
           => /\ j.word_len = wl
              /\ j.word_size = 2
              /\ j.amount = j.asked.amount
        /\ wl \in 2..8
           => /\ j.word_len = 2
              /\ j.word_size = 1
              /\ j.amount = j.asked.amount * SizeOf(wl)
              /\ j.pc = "send" => snd[c].request[23] = 2

C32_ArgumentNormalization == \A c \in callers : RwJob(job[c]) => Normalised(c)

\* C32 as stated, for every PDU length
C32_Original == \A c \in callers : KnownJob(job[c]) => Normalised(c)

C32_Witness ==
    \E c \in callers :
        /\ RwJob(job[c])
        /\ job[c].op = "write"
        /\ job[c].asked = [amount |-> 5, word_len |-> 1]
        /\ job[c].pc = "done"
        /\ job[c].result.ok
        /\ job[c].sizes = <<1>>

\* C33: a read or write whose word length, after the area has forced it, has
\* no size fails with the invalid-data-size error without handing a request
\* to the transport, and leaves the caller's buffer and the session as they were.
UnknownCall(c) ==
    /\ job[c].pc = "idle"
    /\ job'[c].op \in {"read", "write"}
    /\ SizeOf(ForcedWordLen(job'[c])) = 0

C33_UnknownWordLen ==
    [][\A c \in callers :
          UnknownCall(c) =>
              /\ job'[c].pc = "done"
              /\ job'[c].result = RetErr("Response", ISO_INVALID_DATA_SIZE)
              /\ job'[c].nsent = 0
              /\ snd'[c] = snd[c]
              /\ snd[c].pc = "idle"
              /\ job'[c].buffer = (IF job'[c].op = "read"
                                   THEN ReadBuffer(job'[c].asked.amount)
                                   ELSE WriteBuffer(job'[c].asked.amount))
              /\ UNCHANGED <<client, opts, lock, inbuf, peerq>>]_vars

C33_Witness ==
    \E c \in callers :
        /\ job[c].op = "write"
        /\ job[c].area = 132
        /\ job[c].asked = [amount |-> 3, word_len |-> 0]
        /\ job[c].pc = "done"
        /\ job[c].result = RetErr("Response", ISO_INVALID_DATA_SIZE)
        /\ job[c].buffer = <<161, 162, 163>>
        /\ job[c].nsent = 0

\* C34: read and write jobs terminate whatever PDU length the handshake has
\* recorded: with a peer that accepts every request no job crashes, and the
\* remaining element count is strictly smaller, and not negative, after
\* every chunk, so that a job returns after finitely many exchanges.
ChunkAccepted(c) ==
    /\ job[c].op \in {"read", "write"}
    /\ job[c].pc = "send"
    /\ snd[c].pc = "ret"
    /\ Accepted(job[c].op, snd[c].ret)
    /\ faults = 0

C34_JobsTerminate ==
    [][\A c \in callers :
          /\ job'[c].op \in {"read", "write"} /\ faults = 0 => job'[c].pc # "panic"
          /\ ChunkAccepted(c)
             => /\ job'[c].tot_elements < job[c].tot_elements
                /\ job'[c].tot_elements >= 0]_vars

\* C35: once Client::new has returned Ok no step of any operation changes
\* pdu_length, the TSAPs or the connection parameters: the options change
\* only in last_pdu_type, and only where send reads the COTP bytes of a frame.
C35_ConfigurationFrozen ==
    [][client = "ready" =>
          /\ opts' = [opts EXCEPT !.last_pdu_type = opts'.last_pdu_type]
          /\ opts' # opts => \E c \in callers : snd[c].pc = "cotp" /\ snd'[c].pc = "payload"
          /\ client' = "ready"]_vars

\* after the handshake a write job of two exchanges has returned Ok
C35_Witness ==
    \E c \in callers :
        /\ client = "ready"
        /\ job[c].op = "write"
        /\ job[c].pc = "done"
        /\ job[c].result.ok
        /\ job[c].nsent = 2
        /\ Len(hshake) >= 4
        /\ opts.pdu_length = read_u16(hshake[4].bytes, 25)
        /\ opts.last_pdu_type # CONFIRM_CONNECTION
        /\ opts.last_pdu_type = At(peerFrame, 5)

\* C36: a read job never indexes outside the response or the caller's
\* buffer: a success response shorter than 25 + size, or a buffer shorter
\* than the bytes asked for, ends the job with an error value and not with
\* a crash, and the buffer is never written at or beyond the byte count asked.
C36_ReadInBounds ==
    \A c \in callers :
        job[c].op = "read" /\ job[c].max_elements >= 1
        => job[c].pc # "panic"

\* C37: for a first SZL response that passes the first validation the data
\* length be_u16(response[31..33]) - 8 is computed without underflow: a
\* field below 8 ends read_szl with an error value, not with a crash; and
\* when read_szl goes on after the second validation the slice
\* response[41..41+data_len] lies inside the response.
SzlFirstTakes(c) ==
    /\ job[c].op = "read_szl"
    /\ job[c].pc = "first"
    /\ snd[c].pc = "ret"
    /\ snd[c].ret.ok
    /\ validate(snd[c].ret.resp, 0).ok

C37_SzlLengthArithmetic ==
    [][\A c \in callers :
          SzlFirstTakes(c) =>
              LET resp  == snd[c].ret.resp
                  field_ == resp[32] * 256 + resp[33]
              IN  /\ field_ < 8
                     => /\ job'[c].pc = "done"
                        /\ job'[c].result.k # "panic"
                        /\ ~job'[c].result.ok
                  /\ field_ >= 8 /\ job'[c].pc # "panic" /\ (job'[c].pc = "done" => job'[c].result.ok)
                     => /\ job'[c].szl.data_szl = field_ - 8
                        /\ 41 + job'[c].szl.data_szl <= Len(resp)]_vars

\* C38: cp_info and cpu_info never read past the end of the SZL payload:
\* cpu_info returns the invalid-PDU error for a payload shorter than 205
\* bytes, and cp_info returns an error, not a crash, for a payload shorter
\* than the 12 bytes it decodes.
InfoTakes(c) ==
    /\ job[c].op = "read_szl"
    /\ job[c].pc = "done"
    /\ job[c].result.ok
    /\ job'[c].op \in {"cp_info", "cpu_info"}

C38_InfoInBounds ==
    [][\A c \in callers :
          InfoTakes(c) =>
              /\ job'[c].op = "cpu_info" /\ Len(job[c].szl.data) < 205
                 => /\ job'[c].pc = "done"
                    /\ job'[c].result = RetErr("Response", ISO_INVALID_PDU)
              /\ job'[c].op = "cp_info" /\ Len(job[c].szl.data) < 12
                 => /\ job'[c].pc = "done"
                    /\ ~job'[c].result.ok]_vars

\* C39: in every state of a Bool, after new and after any set_value calls,
\* value() is bit p of the byte to_bytes() returns, p being the bit position
\* new has computed from the offset; data_block() and offset() are those of
\* the construction, and offset() is the integer part of the offset.
BoolPosition == bit_offset(F32(field.tenths))

C39_BoolConsistent ==
    (field.st = "ok" /\ field.ty = "Bool")
    => /\ Len(to_bytes(field)) = 1
       /\ field.value = (Bit(to_bytes(field)[1], BoolPosition) = 1)
       /\ field.out # <<>> => field.value = (Bit(field.out[1], BoolPosition) = 1)
       /\ field.data_block = 888
       /\ field.offset = F32(field.tenths)
       /\ Bool_offset(field) = field.tenths \div 10

C39_Witness ==
    /\ field.st = "ok"
    /\ field.ty = "Bool"
    /\ field.tenths = 84
    /\ field.bytes = <<255>>
    /\ field.nset = 2
    /\ ~field.value
    /\ field.out = <<239>>
    /\ Bool_offset(field) = 8


====
